---- MODULE Spec2Model ----
(***************************************************************************)
(* A model of the microESLint extension for Nova: the lint cycle `maybeLint`   *)
(* with its per-document result queue, the published IssueCollection, the  *)
(* Updatable caches of the Node check and of the per-directory ESLint      *)
(* instance, the editor listeners, and the issue reconciliation helpers.   *)
(*                                                                         *)
(* JavaScript runs the extension on one thread: everything between two     *)
(* suspension points (an awaited subprocess) is one atomic step.  Each     *)
(* action below is one event of the editor or one subprocess exit together *)
(* with all the code that runs until the next subprocess is awaited.       *)
(***************************************************************************)
EXTENDS Integers, Sequences, FiniteSets, TLC

\* ------------------------------------------------------------------ bounds
MaxCycles == 3      \* maybeLint invocations that reach a suspension point
MaxTicks == 3       \* clock steps, each half a throttle window long
MaxObjs == 3        \* Updatable objects created over a run
MaxHeals == 2       \* makeExecutable self-heals over a run

Editors == {"e1", "e2"}
URIs == {"a", "b"}

\* ------------------------------------------------------- JavaScript values
Null == "null"      \* null / undefined of a string-valued slot
NoTime == -1        \* `time: null` of an Updatable
NoObj == 0          \* `linters[dir] == null`

\* The throttling delay of `throttled`, in milliseconds.
ThrottleLimit == 60 * 1000
\* The clock advances in steps of half a throttle window.
TickMs == ThrottleLimit \div 2

\* ------------------------------------------------------------------ issues
\* A message is a sequence of words, so that /^File ignored\b/ can be decided.
Issue(src, msg, code, line, col, eline, ecol, sev) ==
  [source |-> src, message |-> msg, code |-> code, line |-> line, column |-> col,
   endLine |-> eline, endColumn |-> ecol, severity |-> sev]

\* The report messages ESLint prints (fields of the JSON report; 0 = absent).
Message(msg, rule, line, col, eline, ecol, sev, fatal) ==
  [message |-> msg, ruleId |-> rule, line |-> line, column |-> col,
   endLine |-> eline, endColumn |-> ecol, severity |-> sev, fatal |-> fatal]

mUndef == Message(<<"x", "is", "not", "defined">>, "no-undef", 3, 5, 0, 0, 2, FALSE)
mSemi == Message(<<"Missing", "semicolon">>, "semi", 1, 9, 1, 10, 1, FALSE)
mIgnored == Message(<<"File", "ignored", "because", "of", "a", "matching", "ignore", "pattern">>,
                    Null, 0, 0, 0, 0, 1, FALSE)
mParse == Message(<<"Parsing", "error">>, Null, 1, 1, 0, 0, 2, TRUE)

\* The reports a lint run can print: the `messages` array of the first entry.
Reports == << <<>>, <<mUndef>>, <<mUndef, mSemi>>, <<mSemi, mUndef>>, <<mIgnored>>, <<mParse>> >>

ExtensionName == "microESLint"

\* `a || b` on numbers: 0 and undefined are both falsy.
OrElse(a, b) == IF a = 0 THEN b ELSE a

\* A faulty conversion, which leaves a missing end position at 0.
toIssueNoEnd(m) ==
  Issue(ExtensionName, m.message, m.ruleId, OrElse(m.line, 0), OrElse(m.column, 0),
        m.endLine, m.endColumn,
        IF m.fatal \/ m.severity = 2 THEN "Error" ELSE "Warning")

\* ESLint.lint: one Issue per report message, in report order.
toIssue(m) ==
  LET line == OrElse(m.line, 0)
      col == OrElse(m.column, 0)
  IN Issue(ExtensionName, m.message, m.ruleId, line, col,
           OrElse(m.endLine, line), OrElse(m.endColumn, col),
           IF m.fatal \/ m.severity = 2 THEN "Error" ELSE "Warning")

lint(report) == [i \in 1..Len(report) |-> toIssue(report[i])]

\* What the lint process printed: nothing, white space only, the JSON report
\* of one file with its messages, a JSON array without an entry (`[]`), or
\* text that is no JSON.
Stdout(kind, report) == [kind |-> kind, report |-> report]

NoStdout == Stdout("empty", <<>>)

Returned(issues) == [kind |-> "return", issues |-> issues, name |-> Null, parsed |-> FALSE]

Thrown(name, parsed) == [kind |-> "throw", issues |-> <<>>, name |-> name, parsed |-> parsed]

NoLint == Returned(<<>>)

\* JSON.parse(stdout)[0].messages.forEach(...), for a stdout that is not blank.
parseReport(stdout) ==
  CASE stdout.kind = "report" -> Returned(lint(stdout.report))
    [] stdout.kind = "noEntry" -> Thrown("TypeError", TRUE)
    [] OTHER -> Thrown("SyntaxError", TRUE)

\* A faulty ESLint.lint, which parses the report before it looks at the
\* exit code.
lintProcessParsing(code, stdout) ==
  LET parsed == IF stdout.kind \in {"empty", "blank"} THEN Returned(<<>>)
                ELSE parseReport(stdout)
  IN IF parsed.kind = "throw" THEN parsed
     ELSE IF code > 1 THEN Thrown("ProcessError", stdout.kind \notin {"empty", "blank"})
     ELSE parsed

\* ESLint.lint after `await runAsync(...)` resolved with `code` and `stdout`.
lintProcess(code, stdout) ==
  IF code > 1 THEN Thrown("ProcessError", FALSE)
  ELSE IF stdout.kind \in {"empty", "blank"} THEN Returned(<<>>)
  ELSE parseReport(stdout)

\* /^File ignored\b/ on a message given as its words.
matchesFileIgnored(msg) == Len(msg) >= 2 /\ msg[1] = "File" /\ msg[2] = "ignored"

\* document.syntax.match(/\bjavascript\b/i), per document.
IsJavaScript(uri) == uri = "a"

filterIssues(issues, uri) ==
  IF Len(issues) = 1
  THEN LET issue == issues[1] IN
       IF issue.severity = "Warning" /\ matchesFileIgnored(issue.message) THEN <<>>
       ELSE IF issue.severity = "Error" /\ issue.code = Null /\ ~IsJavaScript(uri) THEN <<>>
       ELSE issues
  ELSE issues

\* A faulty comparison, which takes two issues of different sources for
\* different issues.
sameIssueAndSource(knownIssue, issue) == knownIssue = issue

\* The comparison of two issues: every field but `source`.
sameIssue(knownIssue, issue) ==
  /\ knownIssue.message = issue.message
  /\ knownIssue.code = issue.code
  /\ knownIssue.line = issue.line
  /\ knownIssue.column = issue.column
  /\ knownIssue.endLine = issue.endLine
  /\ knownIssue.endColumn = issue.endColumn
  /\ knownIssue.severity = issue.severity

changedIssues(known, incoming) ==
  IF Len(known) # Len(incoming) THEN TRUE
  ELSE \E i \in 1..Len(incoming) :
         ~\E k \in 1..Len(known) : sameIssue(known[k], incoming[i])

\* ------------------------------------------------------------- throttling
\* A faulty throttle, which ends one millisecond early: a request exactly one
\* limit after the timestamp is let through.
throttledBelow(since, clock) == since # NoTime /\ clock - since < ThrottleLimit

throttled(since, clock) == since # NoTime /\ clock - since <= ThrottleLimit

\* ------------------------------------------------------------------- state
VARIABLES
  now,          \* Date.now(), in milliseconds
  disabled,     \* the workspace option configKeys.disabled
  textEditors,  \* nova.workspace.textEditors: the open editors
  created,      \* the TextEditor objects created so far (never reused)
  docOf,        \* editor.document.uri of each TextEditor object
  collection,   \* the IssueCollection: the issues published for each URI
  queue,        \* queue[uri] = {lastStarted, lastEnded}
  objs,         \* the Updatable objects created so far, by identity
  nodePath,     \* state.nodePath: the identity of the current Node Updatable
  linters,      \* linters[dir]: the identity of the directory's Updatable
  cycles,       \* the maybeLint invocations suspended at an await, or done
  bg,           \* the fire-and-forget linters[dir].update(updateLinter(dir))
  heals,        \* chmod subprocesses started by makeExecutable so far
  tickets,      \* history: every ticket of a URI: 0 pending, 1 resolved, -1 rejected
  top,          \* history: the report of a URI's highest ticket, once resolved
  applied,      \* history: the tickets whose results were admitted, in order
  missLog,      \* history: the awaited lookups that settled as not found
  onlyMisses,   \* history: every lookup subprocess so far ended as not found
  last          \* history: what the last step did

vars == <<now, disabled, textEditors, created, docOf, collection, queue, objs,
          nodePath, linters, cycles, bg, heals, tickets, top, applied, missLog,
          onlyMisses, last>>

\* All documents of the model live in one directory, nova.path.dirname(path).
Binaries == {"/local/eslint", "/global/eslint"}

NoQueue == [lastStarted |-> 0, lastEnded |-> 0]      \* queue[uri] == null
\* A faulty first counter, which hands out 0 as the first ticket.
NewQueueFromZero == [lastStarted |-> 0, lastEnded |-> 0]

NewQueue == [lastStarted |-> 1, lastEnded |-> 0]

\* new Updatable(): no value, no timestamp, no pending update.
NewUpdatable == [value |-> Null, time |-> NoTime, updates |-> 0]

updating(u) == u.updates > 0

NoCycle == [pc |-> "done", editor |-> Null, uri |-> Null, retry |-> FALSE,
            node |-> NoObj, lobj |-> NoObj, eslint |-> Null, index |-> 0,
            lookupAt |-> NoTime]

\* The result of ESLint.config when no configuration file is found.
NoFile == [kind |-> "none", dir |-> 0, file |-> Null]

\* What the last step did: the action, and for the completion of a lint run
\* its URI, its ticket, queue[uri].lastEnded before the step and whether the
\* document was open in no editor; the calls made on the collection, the
\* lookup subprocesses started, and whether a lookup was throttled.
\* A reconciliation also records the incoming issues (`none` for null), the
\* issues the collection held before, and the same of the step before it.
\* A trigger records the directories its resolver walked and what it found,
\* the failure of a lint run its error.
NoBefore == [act |-> "other", none |-> FALSE, issues |-> <<>>, known |-> <<>>,
             ops |-> <<>>]

NoLast == [act |-> "other", uri |-> Null, idx |-> 0, ended |-> 0,
           closed |-> FALSE, ops |-> <<>>, spawned |-> 0, skipped |-> FALSE,
           replaced |-> FALSE, returned |-> 0, thrown |-> 0, unhandled |-> 0,
           error |-> Null,
           tree |-> <<>>, rev |-> Null, config |-> NoFile,
           fs |-> <<>>, path |-> <<>>, dirnameNull |-> Null, walk |-> NoFile,
           code |-> 0, stdout |-> NoStdout, lint |-> NoLint, results |-> <<>>,
           none |-> FALSE, issues |-> <<>>, known |-> <<>>, before |-> NoBefore]

\* The part of the state the extension's code writes; the fields `ops`,
\* `spawned`, `skipped`, `replaced`, `returned`, `thrown` and `unhandled` (the
\* promises rejected with no handler attached) collect what the
\* running step did (the collection calls, the subprocesses started, a
\* throttled lookup, an ESLint instance assigned to a cache entry by a
\* background update, the maybeLint promises resolved with [] and those
\* rejected), `ok` is FALSE
\* when the step needs more objects or cycles than the bounds allow.
Cur == [disabled |-> disabled, textEditors |-> textEditors, docOf |-> docOf,
        collection |-> collection, queue |-> queue, objs |-> objs,
        nodePath |-> nodePath, linters |-> linters, cycles |-> cycles, bg |-> bg,
        heals |-> heals, tickets |-> tickets, top |-> top, applied |-> applied,
        missLog |-> missLog, onlyMisses |-> onlyMisses,
        ops |-> <<>>, spawned |-> 0, skipped |-> FALSE, replaced |-> FALSE,
        returned |-> 0, thrown |-> 0, unhandled |-> 0, ok |-> TRUE]

\* ------------------------------------------------------------- collection
\* IssueCollection.has: whether the collection holds any issue for the URI.
has(coll, uri) == coll[uri] # <<>>

collectionSet(S, uri, issues) ==
  [S EXCEPT !.collection[uri] = issues, !.ops = Append(@, <<"set", uri>>)]

collectionRemove(S, uri) ==
  [S EXCEPT !.collection[uri] = <<>>, !.ops = Append(@, <<"remove", uri>>)]

collectionClear(S) ==
  [S EXCEPT !.collection = [u \in URIs |-> <<>>], !.ops = Append(@, <<"clear", Null>>)]

\* A faulty noIssues, which removes the issues of every URI.
noIssuesOfAll(S, uri) == collectionClear(S)

\* A faulty noIssues, which leaves the issues of the URI in the collection.
noIssuesKept(S, uri) == S

noIssues(S, uri) == IF has(S.collection, uri) THEN collectionRemove(S, uri) ELSE S

\* --------------------------------------------------------------- documents
\* nova.workspace.textEditors lists the open editors in the order of EditorOrder.
EditorOrder == <<"e1", "e2">>

documentIsClosed(S, uri) == ~\E e \in S.textEditors : S.docOf[e] = uri

documentIsOpenInEditors(S, uri) ==
  SelectSeq(EditorOrder, LAMBDA e : e \in S.textEditors /\ S.docOf[e] = uri)

\* A faulty search, which finds no document for any URI.
findDocumentByURINever(S, uri) == FALSE

findDocumentByURI(S, uri) == \E e \in S.textEditors : S.docOf[e] = uri

\* --------------------------------------------------------------- Updatable
\* A faulty eviction, `new Updatable(null)`: the constructor stamps an
\* Updatable made with a value, so the new entry would be throttled.
newUpdatableStamped(S) ==
  [S EXCEPT !.objs = Append(@, [value |-> Null, time |-> now, updates |-> 0]),
            !.ok = @ /\ Len(S.objs) < MaxObjs]

\* `new Updatable()` stored somewhere: the new object gets the next identity.
newUpdatable(S) ==
  [S EXCEPT !.objs = Append(@, NewUpdatable), !.ok = @ /\ Len(S.objs) < MaxObjs]

\* Updatable.update up to its await: one more pending update.
updateBegin(S, o) == [S EXCEPT !.objs[o].updates = @ + 1]

\* Updatable.update after its await resolved with `updated`.
updateResolve(S, o, updated) ==
  [S EXCEPT !.objs[o] = [value |-> IF updated # @.value THEN updated ELSE @.value,
                         time |-> now,
                         updates |-> IF @.updates > 0 THEN @.updates - 1 ELSE @.updates]]

\* A faulty update, which forgets the pending update when its await rejects
\* (no `finally`).
updateRejectStuck(S, o) == S

\* Updatable.update after its await rejected: only the `finally` block runs.
updateReject(S, o) ==
  [S EXCEPT !.objs[o].updates = IF @ > 0 THEN @ - 1 ELSE @]

\* ------------------------------------------------------------ maybeVoidNode
\* A faulty check, which never finds the cached Node path invalid.
voidNodeNever(S, access) == FALSE

\* `access` is nova.fs.access(node, X_OK) for the cached Node value.
voidNode(S, access) == S.objs[S.nodePath].value # Null /\ ~access

maybeVoidNode(S, access) ==
  IF voidNode(S, access)
  THEN LET T == newUpdatable(S) IN [T EXCEPT !.nodePath = Len(T.objs)]
  ELSE S

\* ---------------------------------------------------------------- getLinter
\* What `npm-which eslint` can answer: exit code, first line of stdout (Null
\* when stdout is empty), and whether that path is an executable file.
WhichResults ==
  {[code |-> 0, stdout |-> Null, exec |-> FALSE],
   [code |-> 1, stdout |-> Null, exec |-> FALSE],
   [code |-> 2, stdout |-> Null, exec |-> FALSE]}
  \cup [code : {0}, stdout : Binaries, exec : {TRUE}]
  \cup [code : {0}, stdout : {"/local/eslint"}, exec : {FALSE}]

\* Whether a lookup answer is a clean "not found".
IsMiss(res) == res.code <= 1 /\ ~(res.code = 0 /\ res.stdout # Null /\ res.exec)

\* A faulty getLinter, which takes every failure for "nothing found".
getLinterSilent(res, binExec, binExists) ==
  IF res.code = 0 /\ res.stdout # Null /\ res.exec
  THEN [kind |-> "value", value |-> res.stdout]
  ELSE [kind |-> "value", value |-> Null]

\* getLinter after `await runAsync(bin, opts)`: the ESLint instance (named by
\* its binary) or null, a thrown ShellError, the Error of makeExecutable when
\* the script is missing, or the chmod subprocess of makeExecutable.
\* binExec and binExists are access(bin, X_OK) and access(bin, F_OK).
getLinter(res, binExec, binExists) ==
  IF res.code = 0 /\ res.stdout # Null
  THEN IF res.exec THEN [kind |-> "value", value |-> res.stdout]
       ELSE [kind |-> "value", value |-> Null]
  ELSE IF res.code > 1
  THEN IF binExec THEN [kind |-> "ShellError", value |-> Null]
       ELSE IF ~binExists THEN [kind |-> "Error", value |-> Null]
       ELSE [kind |-> "chmod", value |-> Null]
  ELSE [kind |-> "value", value |-> Null]

\* A faulty updateLinter, which always returns the instance getLinter made.
updateLinterAlways(current, updated) == [value |-> updated, isCurrent |-> FALSE]

\* updateLinter after `await getLinter(dir)`.  An instance is named by its
\* binary; `isCurrent` tells whether the object returned is `current` itself
\* or the instance getLinter has just made.
updateLinter(current, updated) ==
  IF (updated = Null) # (current = Null)
  THEN [value |-> updated, isCurrent |-> FALSE]
  ELSE IF updated # Null /\ current # Null /\ updated # current
  THEN [value |-> updated, isCurrent |-> FALSE]
  ELSE [value |-> current, isCurrent |-> TRUE]

\* ---------------------------------------------------------------- maybeLint
\* A maybeLint invocation `c` suspends with its local variables `cy`.
Park(S, c, cy) ==
  IF c <= Len(S.cycles) THEN [S EXCEPT !.cycles[c] = cy]
  ELSE [S EXCEPT !.cycles = Append(@, cy)]

\* A maybeLint invocation returns: `return []`, or `return noIssues(uri)`,
\* which is [] as well.
Finish(S, c) ==
  IF c <= Len(S.cycles) THEN [S EXCEPT !.cycles[c] = NoCycle, !.returned = @ + 1]
  ELSE [S EXCEPT !.returned = @ + 1]

\* An exception leaves a maybeLint invocation: its promise rejects.
Throw(S, c) ==
  IF c <= Len(S.cycles) THEN [S EXCEPT !.cycles[c] = NoCycle, !.thrown = @ + 1]
  ELSE [S EXCEPT !.thrown = @ + 1]

\* A faulty outer handler, which logs the error and throws it again.
outerCatchRethrow(S, c) == Throw(S, c)

\* The outer `catch` of maybeLint: console.error, then `return []`.
outerCatch(S, c) == Finish(S, c)

\* maybeLint from `const eslint = linters[dir].value` to the awaited lint run.
AfterLinter(S, c, cy) ==
  LET uri == cy.uri
      l == S.linters
      eslint == S.objs[l].value
  IN IF eslint = Null THEN Finish(noIssues(S, uri), c)
     ELSE LET S1 == IF ~updating(S.objs[l]) /\ ~throttled(S.objs[l].time, now)
                    THEN [updateBegin(S, l) EXCEPT
                            !.bg = @ \cup {[obj |-> l, current |-> eslint, pc |-> "which"]},
                            !.spawned = @ + 1]
                    ELSE S
              S2 == IF S1.queue[uri] = NoQueue
                    THEN [S1 EXCEPT !.queue[uri] = NewQueue] ELSE S1
              index == S2.queue[uri].lastStarted
              S3 == [S2 EXCEPT !.queue[uri].lastStarted = @ + 1,
                               !.tickets[uri] = Append(@, 0), !.top[uri] = 0]
          IN Park(S3, c, [cy EXCEPT !.pc = "lint", !.index = index,
                                    !.eslint = eslint, !.lobj = NoObj])

\* maybeLint from `if (node.value == null)` to the awaited lookup, or further.
AfterNode(S, c, cy) ==
  LET uri == cy.uri IN
  IF S.objs[cy.node].value = Null THEN Finish(noIssues(S, uri), c)
  ELSE LET S1 == IF S.linters = NoObj
                 THEN LET T == newUpdatable(S) IN [T EXCEPT !.linters = Len(T.objs)]
                 ELSE S
           l == S1.linters
       IN IF S1.objs[l].value = Null /\ ~throttled(S1.objs[l].time, now)
          THEN Park([updateBegin(S1, l) EXCEPT !.spawned = @ + 1], c,
                    [cy EXCEPT !.pc = "which", !.lobj = l, !.lookupAt = now])
          ELSE AfterLinter([S1 EXCEPT !.skipped = @ \/ S1.objs[l].value = Null], c, cy)

\* ------------------------------------------------------------ ESLint.config
\* The directories from the document's up to the one below the user's home are
\* a sequence of listings: the names found in the directory, and what
\* requireJSON makes of its package.json (an object with the section, with
\* the section set to null, without the section; null for an unreadable or
\* empty file; the SyntaxError of JSON.parse).
ConfigNames == <<".eslintrc.js", ".eslintrc.cjs", ".eslintrc.yaml", ".eslintrc.yml",
                 ".eslintrc.json", ".eslintrc">>

PackageKinds == {"section", "nullSection", "noSection", "null", "malformed"}

\* A faulty test, for which every package.json holds the section.
sectionAlways(pkg) == TRUE

\* `pkg != null && typeof pkg === 'object' && packageSection in pkg`
sectionIn(pkg) == pkg \in {"section", "nullSection"}

\* `requireJSON(file)[packageSection]`, of the earlier revision: the value of
\* the section must be truthy, and a null package throws a TypeError.
sectionTruthy(pkg) == pkg = "section"

\* `names.find(name => inDir.includes(name))`: the first name, in the order
\* of the list, that the directory holds; Null if it holds none.
RECURSIVE find(_, _, _)
find(names, inDir, k) ==
  IF k > Len(names) THEN Null
  ELSE IF names[k] \in inDir THEN names[k]
  ELSE find(names, inDir, k + 1)

\* ESLint._getConfig from directory i of `tree` upwards; `rev` tells the
\* revision of the section test ("in" or "truthy").
RECURSIVE getConfig(_, _, _, _, _)
getConfig(tree, i, configFileNames, packageSection, rev) ==
  IF i > Len(tree) THEN NoFile
  ELSE LET names == IF packageSection # Null
                    THEN Append(configFileNames, "package.json")
                    ELSE configFileNames
           found == find(names, tree[i].files, 1)
           pkg == tree[i].pkg
       IN IF found = Null
          THEN getConfig(tree, i + 1, configFileNames, packageSection, rev)
          ELSE IF found # "package.json"
          THEN [kind |-> "file", dir |-> i, file |-> found]
          ELSE IF packageSection # Null /\ pkg = "malformed"
          THEN [kind |-> "throw", dir |-> i, file |-> found]
          ELSE IF packageSection # Null /\ rev = "truthy" /\ pkg = "null"
          THEN [kind |-> "throw", dir |-> i, file |-> found]
          ELSE IF packageSection # Null
                  /\ (IF rev = "in" THEN sectionIn(pkg) ELSE sectionTruthy(pkg))
          THEN [kind |-> "file", dir |-> i, file |-> found]
          ELSE getConfig(tree, i + 1, configFileNames, packageSection, rev)

\* ESLint.config(path), for the first configuration file.
config(tree, rev) == getConfig(tree, 1, ConfigNames, "eslintConfig", rev)

\* What maybeLint makes of ESLint.config(path): a configuration, none, or the
\* exception it throws.
kindOf(conf) ==
  IF conf.kind = "file" THEN "ok"
  ELSE IF conf.kind = "none" THEN "noconfig"
  ELSE "configError"

\* -------------------------------------------------------- the upward walk
\* A path is the sequence of its components, "/" the empty sequence.  A file
\* system `fs` gives the listing of each of its directories; a path whose
\* last component is FileName is a file (nova.fs.stat(path).isFile()).
FileName == "a.js"

Root == <<>>

\* homePath(): the normalised home directory of the user.
homePath == <<"Users", "joe">>

\* A faulty dirname, which climbs two directories at once.
dirnameSkip(path) == IF Len(path) <= 1 THEN Root ELSE SubSeq(path, 1, Len(path) - 2)

\* nova.path.dirname: the parent directory; "/" is its own parent.
dirname(path) == IF path = Root THEN Root ELSE SubSeq(path, 1, Len(path) - 1)

isFile(path) == path # Root /\ path[Len(path)] = FileName

\* String.startsWith on two component names.
NamePrefix(prefix, name) == prefix = name \/ (prefix = "joe" /\ name = "joe2")

\* `dir.startsWith(home)`: the test is made on the path strings, so that
\* "/Users/joe2" starts with "/Users/joe".
startsWith(dir, home) ==
  \/ home = Root
  \/ /\ Len(dir) >= Len(home)
     /\ \A i \in 1..(Len(home) - 1) : dir[i] = home[i]
     /\ NamePrefix(home[Len(home)], dir[Len(home)])

\* nova.fs.listdir(dir) with what requireJSON makes of its package.json.
listdir(fs, dir) ==
  IF dir \in DOMAIN fs THEN fs[dir] ELSE [files |-> {}, pkg |-> "null"]

\* One pass of the loop of _getConfig in a directory with `listing`: the
\* file found there, the exception of requireJSON, or "next".  `rev` tells
\* the revision: "in" (issues.js), "truthy" (core/eslint.js), "lib"
\* (lib/eslint.js, whose section test is that of "truthy").
inDirectory(listing, configFileNames, packageSection, rev) ==
  LET names == IF packageSection # Null
               THEN Append(configFileNames, "package.json")
               ELSE configFileNames
      found == find(names, listing.files, 1)
      pkg == listing.pkg
  IN IF found = Null THEN [kind |-> "next", file |-> Null]
     ELSE IF found # "package.json" THEN [kind |-> "file", file |-> found]
     ELSE IF packageSection = Null THEN [kind |-> "next", file |-> Null]
     ELSE IF pkg = "malformed" THEN [kind |-> "throw", file |-> found]
     ELSE IF rev # "in" /\ pkg = "null" THEN [kind |-> "throw", file |-> found]
     ELSE IF (IF rev = "in" THEN sectionIn(pkg) ELSE sectionTruthy(pkg))
     THEN [kind |-> "file", file |-> found]
     ELSE [kind |-> "next", file |-> Null]

\* `dir = nova.path.dirname(dir)` and `while (dir !== home)`: the loop is
\* left when the parent is the home directory; at the root of the file system
\* the parent is the root again, and unless that is the home directory the
\* loop lists it for ever ("hang").
ascend(dir, home) ==
  IF dirname(dir) = home THEN "none"
  ELSE IF dirname(dir) = dir THEN "hang"
  ELSE "loop"

\* The do-while of _getConfig from `dir` on; `listed` collects the
\* directories it has listed.
RECURSIVE walk(_, _, _, _, _, _, _)
walk(fs, home, dir, configFileNames, packageSection, rev, listed) ==
  LET here == inDirectory(listdir(fs, dir), configFileNames, packageSection, rev)
      seen == Append(listed, dir)
  IN IF here.kind # "next"
     THEN [kind |-> here.kind, dir |-> dir, file |-> here.file, listed |-> seen]
     ELSE IF ascend(dir, home) = "loop"
     THEN walk(fs, home, dirname(dir), configFileNames, packageSection, rev, seen)
     ELSE [kind |-> ascend(dir, home), dir |-> Root, file |-> Null, listed |-> seen]

\* ESLint._getConfig(forPath, configFileNames, packageSection) on paths; the
\* revision "lib" has no test of the home directory.
getConfigAt(fs, home, forPath, configFileNames, packageSection, rev) ==
  LET dir == IF isFile(forPath) THEN dirname(forPath) ELSE forPath
  IN IF rev # "lib" /\ ~startsWith(dir, home)
     THEN [kind |-> "none", dir |-> Root, file |-> Null, listed |-> <<>>]
     ELSE walk(fs, home, dir, configFileNames, packageSection, rev, <<>>)

\* ESLint.config(forPath) and ESLint.ignore(forPath).
findConfig(fs, forPath, rev) ==
  getConfigAt(fs, homePath, forPath, ConfigNames, "eslintConfig", rev)

findIgnore(fs, forPath, rev) ==
  getConfigAt(fs, homePath, forPath, <<".eslintignore">>, "eslintIgnore", rev)

\* The loop of ESLint.config(forPath, true) from `path` on, with the files
\* found so far.  `dirnameNull` is what nova.path.dirname(null) does when a
\* search found nothing: it throws, or it returns some value, after which the
\* loop ends because `found` is null.
RECURSIVE configFrom(_, _, _, _, _)
configFrom(fs, path, files, listed, dirnameNull) ==
  LET r == findConfig(fs, path, "in")
      seen == listed \o r.listed
  IN IF r.kind \in {"hang", "throw"}
     THEN [kind |-> r.kind, files |-> files, listed |-> seen]
     ELSE IF r.kind = "none"
     THEN IF dirnameNull = "throw"
          THEN [kind |-> "throw", files |-> files, listed |-> seen]
          ELSE [kind |-> IF files = <<>> THEN "none" ELSE "files",
                files |-> files, listed |-> seen]
     ELSE LET more == Append(files, [dir |-> r.dir, file |-> r.file])
          IN IF dirname(r.dir) = path
             THEN [kind |-> "files", files |-> more, listed |-> seen]
             ELSE configFrom(fs, dirname(r.dir), more, seen, dirnameNull)

\* ESLint.config(forPath, true): every configuration file of the hierarchy.
configAll(fs, forPath, dirnameNull) == configFrom(fs, forPath, <<>>, <<>>, dirnameNull)

\* What nova tells about the document of a lint trigger: lintable with a
\* configuration, untitled or remote, without configuration, or with a path
\* on which ESLint.config throws.
DocKinds == {"ok", "unlintable", "noconfig", "configError"}

\* maybeLint(editor, retry) from its entry to its first await.
maybeLint(S, c, editor, retry, kind) ==
  IF S.disabled THEN Finish(collectionClear(S), c)
  ELSE LET uri == S.docOf[editor] IN
       IF kind = "unlintable" THEN Finish(noIssues(S, uri), c)
       ELSE IF kind = "configError" THEN outerCatch(S, c)
       ELSE IF kind = "noconfig" THEN Finish(noIssues(S, uri), c)
       ELSE LET node == S.nodePath
                cy == [NoCycle EXCEPT !.editor = editor, !.uri = uri,
                                      !.retry = retry, !.node = node]
            IN IF S.objs[node].value = Null /\ ~throttled(S.objs[node].time, now)
               THEN Park(updateBegin(S, node), c, [cy EXCEPT !.pc = "findNode"])
               ELSE AfterNode(S, c, cy)

\* maybeLint after `await node.update(findInPATH('node'))` for invocation c.
nodeSettled(S, c, found) ==
  LET cy == S.cycles[c]
  IN AfterNode(updateResolve(S, cy.node, IF found THEN "true" ELSE "false"), c, cy)

\* The `catch` of the awaited lookup: a ShellError may void the Node path and
\* retry the whole lint once; anything else falls through to the cached value.
\* The lookup of a background update rejects: Updatable.update has a
\* `finally` and no `catch`, so its own promise rejects too, and the caller
\* has dropped that promise without awaiting it or attaching a handler.
refreshRejected(S, o) == [updateReject(S, o) EXCEPT !.unhandled = @ + 1]

lookupFailed(S, c, name, nodeAccess, kind) ==
  LET cy == S.cycles[c]
      S1 == updateReject(S, cy.lobj)
  IN IF name = "ShellError"
     THEN IF voidNode(S1, nodeAccess) /\ cy.retry
          THEN maybeLint(maybeVoidNode(S1, nodeAccess), c, cy.editor, FALSE, kind)
          ELSE AfterLinter(maybeVoidNode(S1, nodeAccess), c, cy)
     ELSE AfterLinter(S1, c, cy)

\* maybeLint after the lookup subprocess of `await linters[dir].update(getLinter(dir))`
\* exited with `res`.
whichSettled(S, c, res, binExec, binExists, nodeAccess, kind) ==
  LET cy == S.cycles[c]
      r == getLinter(res, binExec, binExists)
      S0 == [S EXCEPT !.onlyMisses = @ /\ IsMiss(res)]
  IN IF r.kind = "value"
     THEN AfterLinter(
            [updateResolve(S0, cy.lobj, r.value) EXCEPT
               !.missLog = IF r.value = Null
                           THEN Append(@, [start |-> cy.lookupAt, settled |-> now])
                           ELSE @],
            c, cy)
     ELSE IF r.kind = "chmod"
     THEN [S0 EXCEPT !.cycles[c].pc = "chmod", !.heals = @ + 1,
                     !.ok = @ /\ S.heals < MaxHeals]
     ELSE lookupFailed(S0, c, r.kind, nodeAccess, kind)

\* makeExecutable after `await runAsync('/bin/chmod', options)`, inside the
\* awaited lookup: it throws on a failed chmod, else getLinter runs again.
chmodSettled(S, c, code) ==
  IF code > 0 THEN lookupFailed(S, c, "Error", TRUE, "ok")
  ELSE [S EXCEPT !.cycles[c].pc = "which", !.spawned = @ + 1]

\* The background update after its lookup subprocess exited with `res`.
\* A faulty settling of a background refresh: the result is written into the
\* entry the directory has now, not into the one update() was called on.
bgWhichSettledCurrent(S, t, res, binExec, binExists) ==
  LET r == getLinter(res, binExec, binExists)
      S0 == [S EXCEPT !.onlyMisses = @ /\ IsMiss(res), !.bg = @ \ {t}]
  IN IF r.kind = "value"
     THEN LET u == updateLinter(t.current, r.value)
          IN [updateResolve(S0, S.linters, u.value) EXCEPT !.replaced = TRUE]
     ELSE IF r.kind = "chmod"
     THEN [S0 EXCEPT !.bg = @ \cup {[t EXCEPT !.pc = "chmod"]}, !.heals = @ + 1,
                     !.ok = @ /\ S.heals < MaxHeals]
     ELSE refreshRejected(S0, S.linters)

bgWhichSettled(S, t, res, binExec, binExists) ==
  LET r == getLinter(res, binExec, binExists)
      S0 == [S EXCEPT !.onlyMisses = @ /\ IsMiss(res), !.bg = @ \ {t}]
  IN IF r.kind = "value"
     THEN LET u == updateLinter(t.current, r.value)
              same == \/ u.isCurrent /\ S.objs[t.obj].value = t.current
                      \/ u.value = Null /\ S.objs[t.obj].value = Null
          IN [updateResolve(S0, t.obj, u.value) EXCEPT !.replaced = ~same]
     ELSE IF r.kind = "chmod"
     THEN [S0 EXCEPT !.bg = @ \cup {[t EXCEPT !.pc = "chmod"]}, !.heals = @ + 1,
                     !.ok = @ /\ S.heals < MaxHeals]
     ELSE refreshRejected(S0, t.obj)

bgChmodSettled(S, t, code) ==
  LET S0 == [S EXCEPT !.bg = @ \ {t}]
  IN IF code > 0 THEN refreshRejected(S0, t.obj)
     ELSE [S0 EXCEPT !.bg = @ \cup {[t EXCEPT !.pc = "which"]}, !.spawned = @ + 1]

\* A faulty gate, which compares lastEnded with the counter of started runs
\* instead of the run's own ticket: the ordering properties fail with it.
admittedByStart(S, c) ==
  S.queue[S.cycles[c].uri].lastEnded < S.queue[S.cycles[c].uri].lastStarted

\* A faulty gate, which admits a run only when the run started just before
\* it has ended: a run that never ends holds back every later one.
admittedInOrder(S, c) == S.queue[S.cycles[c].uri].lastEnded = S.cycles[c].index - 1

\* The ticket of invocation c is admitted: no later ticket has ended before.
admitted(S, c) == S.queue[S.cycles[c].uri].lastEnded < S.cycles[c].index

\* What an admitted run does with its results: nothing is published for a
\* closed document, and an unchanged list is not set again.
applyResults(S, uri, results) ==
  IF documentIsClosed(S, uri) THEN noIssues(S, uri)
  ELSE LET issues == filterIssues(results, uri)
           changed == changedIssues(S.collection[uri], issues)
       IN IF changed THEN collectionSet(S, uri, issues) ELSE S

\* A faulty updateIssues, which sets the incoming issues of an open document
\* without comparing them with the published ones.
updateIssuesAlways(S, issues, uri) ==
  IF issues.null \/ Len(issues.items) = 0 \/ documentIsClosed(S, uri)
  THEN IF has(S.collection, uri) THEN collectionRemove(S, uri) ELSE S
  ELSE collectionSet(S, uri, issues.items)

\* updateIssues(collection, issues, document) of the earlier revisions; the
\* incoming issues are a record [null, items], null for `issues == null`.
updateIssues(S, issues, uri) ==
  IF issues.null \/ Len(issues.items) = 0 \/ documentIsClosed(S, uri)
  THEN IF has(S.collection, uri) THEN collectionRemove(S, uri) ELSE S
  ELSE LET knownIssues == S.collection[uri]
           hasChanges == \E i \in 1..Len(issues.items) :
                           ~\E k \in 1..Len(knownIssues) :
                              sameIssue(knownIssues[k], issues.items[i])
       IN IF Len(knownIssues) # Len(issues.items)
          THEN collectionSet(S, uri, issues.items)
          ELSE IF hasChanges THEN collectionSet(S, uri, issues.items)
          ELSE S

\* A faulty completion, which publishes an admitted result without asking
\* whether the document is still open (as the first revision of maybeLint did).
lintResolvedUnchecked(S, c, r) ==
  LET cy == S.cycles[c]
      uri == cy.uri
      S0 == [S EXCEPT !.tickets[uri][cy.index] = 1,
                      !.top[uri] = IF cy.index = Len(S.tickets[uri]) THEN r ELSE @]
  IN IF admitted(S, c)
     THEN Finish(collectionSet([S0 EXCEPT !.queue[uri].lastEnded = cy.index,
                                          !.applied[uri] = Append(@, cy.index)],
                               uri, filterIssues(lint(Reports[r]), uri)), c)
     ELSE Finish(S0, c)

\* maybeLint after `await eslint.lint(...)` resolved with the issues of `report`.
lintResolved(S, c, r) ==
  LET cy == S.cycles[c]
      uri == cy.uri
      results == lint(Reports[r])
      S0 == [S EXCEPT !.tickets[uri][cy.index] = 1,
                      !.top[uri] = IF cy.index = Len(S.tickets[uri]) THEN r ELSE @]
  IN IF admitted(S, c)
     THEN LET S1 == [S0 EXCEPT !.queue[uri].lastEnded = cy.index,
                               !.applied[uri] = Append(@, cy.index)]
          IN Finish(applyResults(S1, uri, results), c)
     ELSE Finish(S0, c)

\* The errors `await eslint.lint(...)` can throw: the ProcessError of an exit
\* code above 1, and the error of JSON.parse on a malformed report.
LintErrors == {"ProcessError", "SyntaxError"}

\* A faulty test, which takes every error of the lint run for a ProcessError.
isAnyError(name) == TRUE

\* `error.name === 'ProcessError'`
isProcessError(name) == name = "ProcessError"

\* maybeLint's `catch` after `await eslint.lint(...)` threw.
lintRejected(S, c, name, nodeAccess, eslintValid, kind) ==
  LET cy == S.cycles[c]
      uri == cy.uri
      S0 == noIssues([S EXCEPT !.tickets[uri][cy.index] = -1], uri)
  IN IF isProcessError(name)
     THEN LET noNode == voidNode(S0, nodeAccess)
              noESLint == ~eslintValid
              S1 == maybeVoidNode(S0, nodeAccess)
              S2 == IF noESLint
                    THEN LET T == newUpdatable(S1) IN [T EXCEPT !.linters = Len(T.objs)]
                    ELSE S1
          IN IF (noNode \/ noESLint) /\ cy.retry
             THEN maybeLint(S2, c, cy.editor, FALSE, kind)
             ELSE Finish(S2, c)
     ELSE Finish(S0, c)

\* ----------------------------------------------------------- editor events
\* nova.workspace.textEditors.forEach(maybeLint), from the i-th editor on; the
\* second argument forEach passes is the index, which is not `false`.
RECURSIVE forEachLint(_, _, _)
forEachLint(S, i, kinds) ==
  IF i > Len(EditorOrder) THEN S
  ELSE LET e == EditorOrder[i] IN
       IF e \in S.textEditors
       THEN forEachLint(maybeLint(S, Len(S.cycles) + 1, e, TRUE, kinds[e]), i + 1, kinds)
       ELSE forEachLint(S, i + 1, kinds)

\* The onDidChange listener of the `disable` option.
configChanged(S, kinds) == forEachLint(S, 1, kinds)

\* The onDidDestroy listener of a TextEditor showing `uri`.
editorDestroyed(S, uri, kind) ==
  IF documentIsClosed(S, uri)
  THEN IF has(S.collection, uri) THEN collectionRemove(S, uri) ELSE S
  ELSE maybeLint(S, Len(S.cycles) + 1, documentIsOpenInEditors(S, uri)[1], TRUE, kind)

\* A faulty save listener, which copies the issues to the new URI and leaves
\* those of the old URI in place.
editorSavedKeepOld(S, oldURI, newURI) ==
  IF newURI # oldURI /\ has(S.collection, oldURI)
  THEN collectionSet(S, newURI, S.collection[oldURI])
  ELSE S

\* The onDidSave listener registered by onWillSave.
editorSaved(S, oldURI, newURI) ==
  IF newURI # oldURI /\ has(S.collection, oldURI)
  THEN LET S1 == collectionSet(S, newURI, S.collection[oldURI])
       IN IF ~findDocumentByURI(S1, oldURI) THEN collectionRemove(S1, oldURI) ELSE S1
  ELSE S

\* ------------------------------------------------------------------ actions
\* An Updatable no variable of the program refers to any more.
Unreachable(T, o) ==
  /\ o # T.nodePath
  /\ o # T.linters
  /\ \A c \in 1..Len(T.cycles) : T.cycles[c].node # o /\ T.cycles[c].lobj # o
  /\ \A t \in T.bg : t.obj # o

Apply(T, l) ==
  /\ T.ok
  /\ disabled' = T.disabled
  /\ textEditors' = T.textEditors
  /\ docOf' = T.docOf
  /\ collection' = T.collection
  /\ queue' = T.queue
  /\ objs' = [o \in 1..Len(T.objs) |->
                IF Unreachable(T, o) THEN NewUpdatable ELSE T.objs[o]]
  /\ nodePath' = T.nodePath
  /\ linters' = T.linters
  /\ cycles' = T.cycles
  /\ bg' = T.bg
  /\ heals' = T.heals
  /\ tickets' = T.tickets
  /\ top' = T.top
  /\ applied' = T.applied
  /\ missLog' = T.missLog
  /\ onlyMisses' = T.onlyMisses
  /\ last' = [l EXCEPT !.ops = T.ops, !.spawned = T.spawned, !.skipped = T.skipped,
                       !.replaced = T.replaced, !.returned = T.returned,
                       !.thrown = T.thrown, !.unhandled = T.unhandled]

Init ==
  /\ now = 0
  /\ disabled = FALSE
  /\ textEditors = {}
  /\ created = {}
  /\ docOf = [e \in Editors |-> Null]
  /\ collection = [u \in URIs |-> <<>>]
  /\ queue = [u \in URIs |-> NoQueue]
  /\ objs = <<NewUpdatable>>
  /\ nodePath = 1
  /\ linters = NoObj
  /\ cycles = <<>>
  /\ bg = {}
  /\ heals = 0
  /\ tickets = [u \in URIs |-> <<>>]
  /\ top = [u \in URIs |-> 0]
  /\ applied = [u \in URIs |-> <<>>]
  /\ missLog = <<>>
  /\ onlyMisses = TRUE
  /\ last = NoLast

\* Time passes.
Tick ==
  /\ now' = now + TickMs
  /\ last' = NoLast
  /\ UNCHANGED <<disabled, textEditors, created, docOf, collection, queue, objs,
                 nodePath, linters, cycles, bg, heals, tickets, top, applied,
                 missLog, onlyMisses>>

\* The workspace opens a new text editor on a document.
OpenEditor(e, uri) ==
  /\ e \notin created
  /\ \A i \in 1..Len(EditorOrder) :
       EditorOrder[i] = e => \A j \in 1..(i - 1) : EditorOrder[j] \in created
  /\ created' = created \cup {e}
  /\ Apply([Cur EXCEPT !.textEditors = @ \cup {e}, !.docOf[e] = uri],
           NoLast)
  /\ UNCHANGED now

\* A text editor is destroyed; its onDidDestroy listener runs.
CloseEditor(e, kind) ==
  /\ e \in textEditors
  /\ Apply(editorDestroyed([Cur EXCEPT !.textEditors = @ \ {e}], docOf[e], kind),
           [NoLast EXCEPT !.act = "CloseEditor", !.uri = docOf[e]])
  /\ UNCHANGED <<now, created>>

\* A save gives the document of an editor a new URI (the old document is
\* closed, a new one opened); the editors in `moved` show the same document.
SaveAs(e, newURI, moved) ==
  /\ e \in textEditors
  /\ e \in moved
  /\ moved \subseteq {x \in textEditors : docOf[x] = docOf[e]}
  /\ newURI # docOf[e]
  /\ Apply(editorSaved([Cur EXCEPT !.docOf = [x \in Editors |->
                                     IF x \in moved THEN newURI ELSE @[x]]],
                       docOf[e], newURI),
           [NoLast EXCEPT !.act = "SaveAs", !.uri = docOf[e]])
  /\ UNCHANGED <<now, created>>

\* The user toggles the `disable` option; its onDidChange listener runs.
ToggleDisabled(kinds) ==
  /\ Apply(configChanged([Cur EXCEPT !.disabled = ~@], kinds),
           [NoLast EXCEPT !.act = "ToggleDisabled"])
  /\ UNCHANGED <<now, created>>

\* Nova asks the issue assistant for the issues of an editor (after a change).
ProvideIssues(e, kind) ==
  /\ e \in textEditors
  /\ Apply(maybeLint(Cur, Len(cycles) + 1, e, TRUE, kind),
           [NoLast EXCEPT !.act = "ProvideIssues", !.uri = docOf[e]])
  /\ UNCHANGED <<now, created>>

\* The same trigger, with the directories ESLint.config walks through.
ProvideIssuesIn(e, tree, rev) ==
  /\ e \in textEditors
  /\ Apply(maybeLint(Cur, Len(cycles) + 1, e, TRUE, kindOf(config(tree, rev))),
           [NoLast EXCEPT !.act = "ProvideIssues", !.uri = docOf[e],
                          !.tree = tree, !.rev = rev, !.config = config(tree, rev)])
  /\ UNCHANGED <<now, created>>

\* `which -s node` exits.
NodeSettled(c, found) ==
  /\ c \in 1..Len(cycles)
  /\ cycles[c].pc = "findNode"
  /\ Apply(nodeSettled(Cur, c, found),
           NoLast)
  /\ UNCHANGED <<now, created>>

\* The awaited `npm-which eslint` exits.
WhichSettled(c, res, binExec, binExists, nodeAccess, kind) ==
  /\ c \in 1..Len(cycles)
  /\ cycles[c].pc = "which"
  /\ binExec => binExists
  /\ Apply(whichSettled(Cur, c, res, binExec, binExists, nodeAccess, kind),
           [NoLast EXCEPT !.act = "WhichSettled"])
  /\ UNCHANGED <<now, created>>

\* The chmod of the self-heal inside the awaited lookup exits.
ChmodSettled(c, code) ==
  /\ c \in 1..Len(cycles)
  /\ cycles[c].pc = "chmod"
  /\ Apply(chmodSettled(Cur, c, code),
           NoLast)
  /\ UNCHANGED <<now, created>>

\* The `npm-which eslint` of a background update exits.
BgWhichSettled(t, res, binExec, binExists) ==
  /\ t \in bg
  /\ t.pc = "which"
  /\ binExec => binExists
  /\ Apply(bgWhichSettled(Cur, t, res, binExec, binExists),
           [NoLast EXCEPT !.act = "BgWhichSettled"])
  /\ UNCHANGED <<now, created>>

\* The chmod of the self-heal inside a background update exits.
BgChmodSettled(t, code) ==
  /\ t \in bg
  /\ t.pc = "chmod"
  /\ Apply(bgChmodSettled(Cur, t, code), NoLast)
  /\ UNCHANGED <<now, created>>

\* The lint subprocess exits with code 0 or 1 and the well-formed report r.
LintResolved(c, r) ==
  /\ c \in 1..Len(cycles)
  /\ cycles[c].pc = "lint"
  /\ Apply(lintResolved(Cur, c, r),
           [NoLast EXCEPT !.act = "LintResolved", !.uri = cycles[c].uri,
                          !.idx = cycles[c].index,
                          !.ended = queue[cycles[c].uri].lastEnded,
                          !.closed = \A e \in textEditors : docOf[e] # cycles[c].uri])
  /\ UNCHANGED <<now, created>>

\* The lint subprocess exits with a code above 1, or prints a malformed report.
LintRejected(c, name, nodeAccess, eslintValid, kind) ==
  /\ c \in 1..Len(cycles)
  /\ cycles[c].pc = "lint"
  /\ Apply(lintRejected(Cur, c, name, nodeAccess, eslintValid, kind),
           [NoLast EXCEPT !.act = "LintRejected", !.uri = cycles[c].uri,
                          !.error = name,
                          !.idx = cycles[c].index,
                          !.ended = queue[cycles[c].uri].lastEnded,
                          !.closed = \A e \in textEditors : docOf[e] # cycles[c].uri])
  /\ UNCHANGED <<now, created>>

\* What the last step recorded of a reconciliation, for the step after it.
Before == [act |-> last.act, none |-> last.none, issues |-> last.issues,
           known |-> last.known, ops |-> last.ops]

\* A caller reconciles `issues` for `uri` with updateIssues.
UpdateIssues(issues, uri) ==
  /\ Apply(updateIssues(Cur, issues, uri),
           [NoLast EXCEPT !.act = "UpdateIssues", !.uri = uri,
                          !.closed = \A e \in textEditors : docOf[e] # uri,
                          !.none = issues.null, !.issues = issues.items,
                          !.known = collection[uri], !.before = Before])
  /\ UNCHANGED <<now, created>>

\* An admitted lint run hands `results` for `uri` to the collection.
ApplyResults(results, uri) ==
  /\ Apply(applyResults(Cur, uri, results),
           [NoLast EXCEPT !.act = "ApplyResults", !.uri = uri,
                          !.closed = \A e \in textEditors : docOf[e] # uri,
                          !.issues = filterIssues(results, uri),
                          !.known = collection[uri], !.before = Before])
  /\ UNCHANGED <<now, created>>

\* ---------------------------------------------------------- the environment
\* The answers of the environment to an exiting lookup: the subprocess result,
\* access(bin, X_OK), access(bin, F_OK), access(node, X_OK) and the document
\* kind a retry finds.  A field the code does not read for a result is fixed.
WhichAnswers(kinds) ==
  {[res |-> r, binExec |-> TRUE, binExists |-> TRUE, nodeAccess |-> TRUE, kind |-> "ok"] :
     r \in {x \in WhichResults : x.code <= 1}}
  \cup {[res |-> r, binExec |-> TRUE, binExists |-> TRUE, nodeAccess |-> a, kind |-> k] :
          r \in {x \in WhichResults : x.code > 1}, a \in BOOLEAN, k \in kinds}
  \cup {[res |-> r, binExec |-> FALSE, binExists |-> x, nodeAccess |-> TRUE, kind |-> "ok"] :
          r \in {x \in WhichResults : x.code > 1}, x \in BOOLEAN}

\* The answers to a failing lint run: the error, access(node, X_OK),
\* eslint.valid and the document kind a retry finds.
LintAnswers(kinds) ==
  {[name |-> "SyntaxError", nodeAccess |-> TRUE, eslintValid |-> TRUE, kind |-> "ok"]}
  \cup {[name |-> "ProcessError", nodeAccess |-> TRUE, eslintValid |-> TRUE, kind |-> "ok"]}
  \cup {[name |-> "ProcessError", nodeAccess |-> a, eslintValid |-> v, kind |-> k] :
          a \in BOOLEAN, v \in BOOLEAN, k \in kinds}

\* ----------------------------------------------------------- specifications
\* Every event of the editor and every subprocess exit, with every answer.
Next ==
  \/ Tick
  \/ \E e \in Editors, uri \in URIs : OpenEditor(e, uri)
  \/ \E e \in Editors, kind \in DocKinds : CloseEditor(e, kind)
  \/ \E e \in Editors, newURI \in URIs, moved \in SUBSET Editors : SaveAs(e, newURI, moved)
  \/ \E kinds \in [Editors -> DocKinds] : ToggleDisabled(kinds)
  \/ \E e \in Editors, kind \in DocKinds : ProvideIssues(e, kind)
  \/ \E c \in 1..Len(cycles), found \in BOOLEAN : NodeSettled(c, found)
  \/ \E c \in 1..Len(cycles), a \in WhichAnswers(DocKinds) :
       WhichSettled(c, a.res, a.binExec, a.binExists, a.nodeAccess, a.kind)
  \/ \E c \in 1..Len(cycles), code \in {0, 1} : ChmodSettled(c, code)
  \/ \E t \in bg, a \in WhichAnswers({"ok"}) :
       BgWhichSettled(t, a.res, a.binExec, a.binExists)
  \/ \E t \in bg, code \in {0, 1} : BgChmodSettled(t, code)
  \/ \E c \in 1..Len(cycles), r \in 1..Len(Reports) : LintResolved(c, r)
  \/ \E c \in 1..Len(cycles), a \in LintAnswers(DocKinds) :
       LintRejected(c, a.name, a.nodeAccess, a.eslintValid, a.kind)

\* The whole extension, within the bounds on cycles and on the clock.
Spec ==
  Init /\ [][Next /\ Len(cycles') <= MaxCycles /\ now' <= MaxTicks * TickMs]_vars

\* The lint cycles of one document that stays open in one editor, while the
\* extension is enabled: triggers, Node check, lookup and lint run, with every
\* completion order and every outcome.  It starts after the editor's document
\* was linted once without issues as "b" and then saved as "a": Node and
\* ESLint are cached, and "a" has no queue yet.
SeqCycles == 4

InitSeq ==
  /\ now = 0
  /\ disabled = FALSE
  /\ textEditors = {"e1"}
  /\ created = {"e1"}
  /\ docOf = [e \in Editors |-> IF e = "e1" THEN "a" ELSE Null]
  /\ collection = [u \in URIs |-> <<>>]
  /\ queue = [u \in URIs |-> IF u = "b" THEN [lastStarted |-> 2, lastEnded |-> 1]
                                        ELSE NoQueue]
  /\ objs = <<[value |-> "true", time |-> 0, updates |-> 0],
              [value |-> "/global/eslint", time |-> 0, updates |-> 0]>>
  /\ nodePath = 1
  /\ linters = 2
  /\ cycles = <<NoCycle>>
  /\ bg = {}
  /\ heals = 0
  /\ tickets = [u \in URIs |-> IF u = "b" THEN <<1>> ELSE <<>>]
  /\ top = [u \in URIs |-> IF u = "b" THEN 1 ELSE 0]
  /\ applied = [u \in URIs |-> IF u = "b" THEN <<1>> ELSE <<>>]
  /\ missLog = <<>>
  /\ onlyMisses = FALSE
  /\ last = NoLast

\* The reports of the lint runs: none, one issue, two issues.
SeqReports == {1, 2, 3}

NextSeq ==
  \/ ProvideIssues("e1", "ok") /\ Len(cycles') <= SeqCycles
  \/ \E c \in 1..Len(cycles), found \in BOOLEAN : NodeSettled(c, found)
  \/ \E c \in 1..Len(cycles), a \in WhichAnswers({"ok"}) :
       WhichSettled(c, a.res, a.binExec, a.binExists, a.nodeAccess, a.kind)
  \/ \E c \in 1..Len(cycles), code \in {0, 1} : ChmodSettled(c, code)
  \/ \E c \in 1..Len(cycles), r \in SeqReports : LintResolved(c, r)
  \/ \E c \in 1..Len(cycles), a \in LintAnswers({"ok"}) :
       LintRejected(c, a.name, a.nodeAccess, a.eslintValid, a.kind)

SpecSeq == InitSeq /\ [][NextSeq]_vars

\* The life cycle of documents: editors open, close and save under a new
\* name, the option is toggled, and lint cycles succeed or fail in between,
\* while Node and ESLint stay installed; from the same start as SpecSeq.
DocsCycles == 3

DocsReports == {1, 2}

\* The failures of a lint run that leave the cached paths valid.
DocsFailures == {a \in LintAnswers({"ok"}) : a.nodeAccess /\ a.eslintValid}

NextDocs ==
  \/ \E uri \in URIs : OpenEditor("e2", uri)
  \/ \E e \in Editors : CloseEditor(e, "ok") /\ Len(cycles') <= DocsCycles
  \/ \E e \in Editors, newURI \in URIs, moved \in SUBSET Editors : SaveAs(e, newURI, moved)
  \/ ToggleDisabled([e \in Editors |-> "ok"]) /\ Len(cycles') <= DocsCycles
  \/ \E e \in Editors : ProvideIssues(e, "ok") /\ Len(cycles') <= DocsCycles
  \/ \E c \in 1..Len(cycles), r \in DocsReports : LintResolved(c, r)
  \/ \E c \in 1..Len(cycles), a \in DocsFailures :
       LintRejected(c, a.name, a.nodeAccess, a.eslintValid, a.kind)

SpecDocs == InitSeq /\ [][NextDocs]_vars

\* The reconciliation of incoming issues with the collection, as a function
\* of the published list, the incoming list and whether the document is open:
\* every list of up to RecMaxLen issues out of three, of which two differ only
\* in their source and the third from the first only in its end column.
RecMaxLen == 2

RecIssues ==
  LET i == toIssue(mUndef)
  IN {i, [i EXCEPT !.source = "other"], [i EXCEPT !.endColumn = 7]}

RecLists == UNION {[1..n -> RecIssues] : n \in 0..RecMaxLen}

RecIncoming ==
  {[null |-> TRUE, items |-> <<>>]} \cup {[null |-> FALSE, items |-> l] : l \in RecLists}

InitRec ==
  /\ now = 0
  /\ disabled = FALSE
  /\ textEditors \in {{}, {"e1"}}
  /\ created = textEditors
  /\ docOf = [e \in Editors |-> IF e \in textEditors THEN "a" ELSE Null]
  /\ collection \in {[u \in URIs |-> IF u = "a" THEN l ELSE <<>>] : l \in RecLists}
  /\ queue = [u \in URIs |-> NoQueue]
  /\ objs = <<NewUpdatable>>
  /\ nodePath = 1
  /\ linters = NoObj
  /\ cycles = <<>>
  /\ bg = {}
  /\ heals = 0
  /\ tickets = [u \in URIs |-> <<>>]
  /\ top = [u \in URIs |-> 0]
  /\ applied = [u \in URIs |-> <<>>]
  /\ missLog = <<>>
  /\ onlyMisses = TRUE
  /\ last = NoLast

NextRec ==
  \/ \E issues \in RecIncoming : UpdateIssues(issues, "a")
  \/ \E results \in RecLists : ApplyResults(results, "a")

SpecRec == InitRec /\ [][NextRec]_vars

\* The lookups of ESLint for a directory in which none is installed, with Node
\* in the PATH: one editor triggers lint cycles while time passes, and every
\* lookup either finds nothing or fails; from the state in which the editor
\* has just opened.
CacheCycles == 3

CacheTicks == 3

InitCache ==
  /\ now = 0
  /\ disabled = FALSE
  /\ textEditors = {"e1"}
  /\ created = {"e1"}
  /\ docOf = [e \in Editors |-> IF e = "e1" THEN "a" ELSE Null]
  /\ collection = [u \in URIs |-> <<>>]
  /\ queue = [u \in URIs |-> NoQueue]
  /\ objs = <<NewUpdatable>>
  /\ nodePath = 1
  /\ linters = NoObj
  /\ cycles = <<>>
  /\ bg = {}
  /\ heals = 0
  /\ tickets = [u \in URIs |-> <<>>]
  /\ top = [u \in URIs |-> 0]
  /\ applied = [u \in URIs |-> <<>>]
  /\ missLog = <<>>
  /\ onlyMisses = TRUE
  /\ last = NoLast

\* The answers of a lookup that finds no executable binary: nothing found, or
\* a failure of the lookup script itself.
CacheAnswers ==
  {a \in WhichAnswers({"ok"}) : ~(a.res.code = 0 /\ a.res.exec) /\ a.binExec}

NextCache ==
  \/ Tick /\ now' <= CacheTicks * TickMs
  \/ ProvideIssues("e1", "ok") /\ Len(cycles') <= CacheCycles
  \/ \E c \in 1..Len(cycles) : NodeSettled(c, TRUE)
  \/ \E c \in 1..Len(cycles), a \in CacheAnswers :
       WhichSettled(c, a.res, a.binExec, a.binExists, a.nodeAccess, a.kind)

SpecCache == InitCache /\ [][NextCache]_vars

\* The cache of Node and ESLint over time: one editor triggers lint cycles
\* while the clock advances, lookups find a binary, find none or fail, the
\* lookup script heals itself, background refreshes run, and lint runs succeed
\* or fail; from the same start as SpecSeq, with Node and ESLint cached.
RefCycles == 3

RefTicks == 3

\* One lookup answer of each kind: each binary found, nothing found, a failing
\* script (with Node still there or gone), and a script that is not executable.
RefAnswers ==
  {a \in WhichAnswers({"ok"}) :
     /\ a.res.code # 0 \/ a.res.exec
     /\ a.binExec \/ a.binExists}

\* The configuration resolver: lint triggers for a document whose directory
\* and parent directories hold every combination of two dedicated files and
\* a package.json of every kind; from the warm start.
ConfDepth == 2

ConfCycles == 2

ConfListings ==
  {[files |-> f, pkg |-> "null"] : f \in SUBSET {".eslintrc.js", ".eslintrc.json"}}
  \cup {[files |-> f \cup {"package.json"}, pkg |-> k] :
          f \in SUBSET {".eslintrc.js", ".eslintrc.json"}, k \in PackageKinds}

ConfTrees == UNION {[1..n -> ConfListings] : n \in 1..ConfDepth}

NextConf ==
  \/ \E tree \in ConfTrees, rev \in {"in", "truthy"} :
       ProvideIssuesIn("e1", tree, rev) /\ Len(cycles') <= ConfCycles
  \/ \E c \in 1..Len(cycles), r \in {1, 2} : LintResolved(c, r)

SpecConf == InitSeq /\ [][NextConf]_vars

\* The resolver on paths: a file system with the user's home directory, a
\* project and its subdirectory below it, the directories above it and a
\* sibling whose name begins with that of the home directory; at most
\* WalkFiles directories hold a configuration file, an ignore file or a
\* package.json.  Each behaviour is one call of config, ignore or
\* config(path, true) for some path in some file system.
WalkFiles == 2

WalkDirs ==
  {Root, <<"Users">>, homePath, <<"Users", "joe", "p">>, <<"Users", "joe", "p", "s">>,
   <<"Users", "joe2">>, <<"Users", "joe2", "p">>}

NoListing == [files |-> {}, pkg |-> "null"]

WalkListings ==
  {[files |-> {".eslintrc.json"}, pkg |-> "null"],
   [files |-> {".eslintignore"}, pkg |-> "null"],
   [files |-> {"package.json"}, pkg |-> "section"],
   [files |-> {"package.json"}, pkg |-> "noSection"]}

WalkSystems ==
  {fs \in [WalkDirs -> WalkListings \cup {NoListing}] :
     Cardinality({d \in WalkDirs : fs[d] # NoListing}) <= WalkFiles}

WalkPaths ==
  LET dirs == WalkDirs \cup {<<"opt">>}
  IN dirs \cup {Append(d, FileName) : d \in dirs}

InitWalk ==
  /\ now = 0
  /\ disabled = FALSE
  /\ textEditors = {"e1"}
  /\ created = {"e1"}
  /\ docOf = [e \in Editors |-> IF e = "e1" THEN "a" ELSE Null]
  /\ collection = [u \in URIs |-> <<>>]
  /\ queue = [u \in URIs |-> NoQueue]
  /\ objs = <<NewUpdatable>>
  /\ nodePath = 1
  /\ linters = NoObj
  /\ cycles = <<>>
  /\ bg = {}
  /\ heals = 0
  /\ tickets = [u \in URIs |-> <<>>]
  /\ top = [u \in URIs |-> 0]
  /\ applied = [u \in URIs |-> <<>>]
  /\ missLog = <<>>
  /\ onlyMisses = TRUE
  /\ \E fs \in WalkSystems, path \in WalkPaths, rev \in {"in", "lib"} :
       last = [NoLast EXCEPT !.act = "path", !.fs = fs, !.path = path, !.rev = rev]

\* A call of the resolver changes nothing of the extension's state.
OnlyLast ==
  UNCHANGED <<now, disabled, textEditors, created, docOf, collection, queue, objs,
              nodePath, linters, cycles, bg, heals, tickets, top, applied,
              missLog, onlyMisses>>

\* ESLint.config(path), in the revision of the input.
FindConfig ==
  /\ last.act = "path"
  /\ last' = [last EXCEPT !.act = "config",
                          !.walk = findConfig(last.fs, last.path, last.rev)]
  /\ OnlyLast

\* ESLint.ignore(path).
FindIgnore ==
  /\ last.act = "path"
  /\ last.rev = "in"
  /\ last' = [last EXCEPT !.act = "ignore",
                          !.walk = findIgnore(last.fs, last.path, last.rev)]
  /\ OnlyLast

\* ESLint.config(path, true).
FindAll(dirnameNull) ==
  /\ last.act = "path"
  /\ last.rev = "in"
  /\ last' = [last EXCEPT !.act = "all", !.dirnameNull = dirnameNull,
                          !.walk = configAll(last.fs, last.path, dirnameNull)]
  /\ OnlyLast

NextWalk ==
  \/ FindConfig
  \/ FindIgnore
  \/ \E dirnameNull \in {"throw", "value"} : FindAll(dirnameNull)

SpecWalk == InitWalk /\ [][NextWalk]_vars

\* An admitted lint run of the latest maybeLint filters its results and
\* publishes them.
FilterAndApply(results, uri) ==
  /\ Apply(applyResults(Cur, uri, results),
           [NoLast EXCEPT !.act = "FilterAndApply", !.uri = uri,
                          !.closed = \A e \in textEditors : docOf[e] # uri,
                          !.results = results,
                          !.issues = filterIssues(results, uri),
                          !.known = collection[uri]])
  /\ UNCHANGED <<now, created>>

\* An admitted lint run of the earlier maybeLint filters its results and
\* hands them to updateIssues.
FilterAndUpdate(results, uri) ==
  /\ Apply(updateIssues(Cur, [null |-> FALSE, items |-> filterIssues(results, uri)], uri),
           [NoLast EXCEPT !.act = "FilterAndUpdate", !.uri = uri,
                          !.closed = \A e \in textEditors : docOf[e] # uri,
                          !.results = results,
                          !.issues = filterIssues(results, uri),
                          !.known = collection[uri]])
  /\ UNCHANGED <<now, created>>

\* The filter and the publication of lint results: the lists of up to
\* FilterLen issues, over an error, a warning and the "File ignored" message
\* as a warning and as an error, for a document that is open or closed.
FilterLen == 2

FilterIssues ==
  {toIssue(mUndef), toIssue(mSemi), toIssue(mIgnored),
   toIssue([mIgnored EXCEPT !.severity = 2])}

FilterLists == UNION {[1..n -> FilterIssues] : n \in 0..FilterLen}

InitFilter ==
  /\ now = 0
  /\ disabled = FALSE
  /\ textEditors \in {{}, {"e1"}}
  /\ created = textEditors
  /\ docOf = [e \in Editors |-> IF e \in textEditors THEN "a" ELSE Null]
  /\ collection \in {[u \in URIs |-> IF u = "a" THEN l ELSE <<>>] : l \in FilterLists}
  /\ queue = [u \in URIs |-> NoQueue]
  /\ objs = <<NewUpdatable>>
  /\ nodePath = 1
  /\ linters = NoObj
  /\ cycles = <<>>
  /\ bg = {}
  /\ heals = 0
  /\ tickets = [u \in URIs |-> <<>>]
  /\ top = [u \in URIs |-> 0]
  /\ applied = [u \in URIs |-> <<>>]
  /\ missLog = <<>>
  /\ onlyMisses = TRUE
  /\ last = NoLast

NextFilter ==
  \/ \E results \in FilterLists : FilterAndApply(results, "a")
  \/ \E results \in FilterLists : FilterAndUpdate(results, "a")

SpecFilter == InitFilter /\ [][NextFilter]_vars

\* Documents that cannot be linted: from the warm start the editor's document
\* is linted, found untitled or remote, or found without a configuration;
\* a lint run fails because the binary is gone, the entry of the directory
\* is replaced, and the lookups find nothing or a binary.
SkipCycles == 3

SkipKinds == {"ok", "unlintable", "noconfig"}

SkipAnswers == {a \in RefAnswers : a.res.code <= 1}

NextSkip ==
  \/ \E kind \in SkipKinds : ProvideIssues("e1", kind) /\ Len(cycles') <= SkipCycles
  \/ \E c \in 1..Len(cycles), a \in SkipAnswers :
       WhichSettled(c, a.res, a.binExec, a.binExists, a.nodeAccess, a.kind)
  \/ \E c \in 1..Len(cycles) : LintResolved(c, 2)
  \/ \E c \in 1..Len(cycles) : LintRejected(c, "ProcessError", TRUE, FALSE, "ok")

SpecSkip == InitSeq /\ [][NextSkip]_vars

\* A lint run that never exits: from the warm start a second editor opens
\* document b, the editors trigger lint cycles, and every lint process exits
\* with a report, except that of the first run for document a, whose
\* onDidExit callback never comes.  The process of every other run exits
\* eventually and the event loop then runs its continuation.
HangCycles == 4

\* Invocation c is the run whose process never exits.
HungRun(c) ==
  /\ c \in 1..Len(cycles)
  /\ cycles[c].pc = "lint"
  /\ cycles[c].uri = "a"
  /\ cycles[c].index = 1

\* The process of invocation c, not the hung one, exits with report r.
ExitOther(c, r) == c \in 1..Len(cycles) /\ ~HungRun(c) /\ LintResolved(c, r)

NextHang ==
  \/ OpenEditor("e2", "b")
  \/ \E e \in Editors : ProvideIssues(e, "ok") /\ Len(cycles') <= HangCycles
  \/ \E c \in 1..Len(cycles), r \in {1, 2} : ExitOther(c, r)

SpecHang ==
  /\ InitSeq
  /\ [][NextHang]_vars
  /\ \A c \in 1..HangCycles : WF_vars(\E r \in {1, 2} : ExitOther(c, r))

\* Two documents side by side, the option staying enabled: a second editor
\* opens a or b, documents are saved under the other name, triggers find
\* them to be linted or not, runs end with a report, with an unparsable one
\* or with a ProcessError (the binary still there, or gone: the entry is
\* replaced and the cycle retried for the editor's document of that time,
\* its lookup finding a binary or none).
FrameCycles == 3

FrameFailures ==
  {a \in LintAnswers({"ok"}) : a.nodeAccess}

NextFrame ==
  \/ \E uri \in URIs : OpenEditor("e2", uri)
  \/ \E e \in Editors, newURI \in URIs, moved \in SUBSET Editors : SaveAs(e, newURI, moved)
  \/ \E e \in Editors, kind \in SkipKinds :
       ProvideIssues(e, kind) /\ Len(cycles') <= FrameCycles
  \/ \E c \in 1..Len(cycles), a \in SkipAnswers :
       WhichSettled(c, a.res, a.binExec, a.binExists, a.nodeAccess, a.kind)
  \/ \E c \in 1..Len(cycles), r \in {1, 2} : LintResolved(c, r)
  \/ \E c \in 1..Len(cycles), a \in FrameFailures :
       LintRejected(c, a.name, a.nodeAccess, a.eslintValid, a.kind)

SpecFrame == InitSeq /\ [][NextFrame]_vars

\* The runs of the lint process: every exit code up to MaxExitCode with every
\* stdout, the reports holding up to ReportLen messages with every combination
\* of present and absent positions, severity and fatal flag (a fatal message
\* names no rule).
MaxExitCode == 2

ReportLen == 2

ReportMessages ==
  {Message(mUndef.message, IF fatal THEN Null ELSE "no-undef", line, column,
           endLine, endColumn, severity, fatal) :
     line \in {0, 3}, column \in {0, 5}, endLine \in {0, 4}, endColumn \in {0, 7},
     severity \in {1, 2}, fatal \in BOOLEAN}

LintReports == UNION {[1..n -> ReportMessages] : n \in 0..ReportLen}

Stdouts ==
  {Stdout(k, <<>>) : k \in {"empty", "blank", "noEntry", "garbage"}}
    \cup {Stdout("report", r) : r \in LintReports}

InitLint ==
  /\ now = 0
  /\ disabled = FALSE
  /\ textEditors = {"e1"}
  /\ created = {"e1"}
  /\ docOf = [e \in Editors |-> IF e = "e1" THEN "a" ELSE Null]
  /\ collection = [u \in URIs |-> <<>>]
  /\ queue = [u \in URIs |-> NoQueue]
  /\ objs = <<NewUpdatable>>
  /\ nodePath = 1
  /\ linters = NoObj
  /\ cycles = <<>>
  /\ bg = {}
  /\ heals = 0
  /\ tickets = [u \in URIs |-> <<>>]
  /\ top = [u \in URIs |-> 0]
  /\ applied = [u \in URIs |-> <<>>]
  /\ missLog = <<>>
  /\ onlyMisses = TRUE
  /\ \E code \in 0..MaxExitCode, stdout \in Stdouts :
       last = [NoLast EXCEPT !.act = "exit", !.code = code, !.stdout = stdout]

\* ESLint.lint from the exit of its process on.
Lint ==
  /\ last.act = "exit"
  /\ last' = [last EXCEPT !.act = "lint", !.lint = lintProcess(last.code, last.stdout)]
  /\ OnlyLast

NextLint == Lint

SpecLint == InitLint /\ [][NextLint]_vars

\* One call of getLinter: a single lint cycle from the cold start, whose
\* lookup gets every answer, with the Node path staying valid so that the
\* cycle is not retried.
LocateCycles == 1

LocateTicks == 3

LocateAnswers == {a \in WhichAnswers({"ok"}) : a.nodeAccess}

NextLocate ==
  \/ Tick /\ now' <= LocateTicks * TickMs
  \/ ProvideIssues("e1", "ok") /\ Len(cycles') <= LocateCycles
  \/ \E c \in 1..Len(cycles), found \in BOOLEAN : NodeSettled(c, found)
  \/ \E c \in 1..Len(cycles), a \in LocateAnswers :
       WhichSettled(c, a.res, a.binExec, a.binExists, a.nodeAccess, a.kind)
  \/ \E c \in 1..Len(cycles), code \in {0, 1} : ChmodSettled(c, code)
  \/ \E c \in 1..Len(cycles), r \in {1, 2} : LintResolved(c, r)

SpecLocate == InitCache /\ [][NextLocate]_vars

\* The failures of a lint run: those of LintAnswers, and an unparsable report
\* printed while the binary is not executable any more.
RefFailures ==
  LintAnswers({"ok"})
  \cup {[name |-> "SyntaxError", nodeAccess |-> TRUE, eslintValid |-> FALSE, kind |-> "ok"]}

NextRef ==
  \/ Tick /\ now' <= RefTicks * TickMs
  \/ \E kind \in {"ok", "configError"} :
       ProvideIssues("e1", kind) /\ Len(cycles') <= RefCycles
  \/ \E c \in 1..Len(cycles) : NodeSettled(c, TRUE)
  \/ \E c \in 1..Len(cycles), a \in RefAnswers :
       WhichSettled(c, a.res, a.binExec, a.binExists, a.nodeAccess, a.kind)
  \/ \E c \in 1..Len(cycles), code \in {0, 1} : ChmodSettled(c, code)
  \/ \E t \in bg, a \in RefAnswers :
       BgWhichSettled(t, a.res, a.binExec, a.binExists)
  \/ \E t \in bg, code \in {0, 1} : BgChmodSettled(t, code)
  \/ \E c \in 1..Len(cycles) : LintResolved(c, 2)
  \/ \E c \in 1..Len(cycles), a \in RefFailures :
       LintRejected(c, a.name, a.nodeAccess, a.eslintValid, a.kind)

SpecRef == InitSeq /\ [][NextRef]_vars

\* ------------------------------------------------------------ the sequencer
\* The last step made the call `kind` on the collection for `uri`.
Did(kind, uri) == \E i \in 1..Len(last.ops) : last.ops[i] = <<kind, uri>>

\* The last step was the completion of a lint run.
Completed == last.act \in {"LintResolved", "LintRejected"}

\* C1: a lint run that completes successfully with ticket i touches the
\* collection only if lastEnded < i held at its completion, and then
\* lastEnded = i; a successful completion with lastEnded >= i changes neither
\* the collection nor lastEnded; so the applied tickets of every URI are
\* strictly increasing.
C1_AdmissionGate ==
  /\ \A u \in URIs : \A i, j \in 1..Len(applied[u]) :
       i < j => applied[u][i] < applied[u][j]
  /\ last.act = "LintResolved" =>
       /\ last.ops # <<>> => last.ended < last.idx
       /\ last.ended < last.idx =>
            /\ queue[last.uri].lastEnded = last.idx
            /\ applied[last.uri][Len(applied[last.uri])] = last.idx
       /\ last.ended >= last.idx =>
            /\ last.ops = <<>>
            /\ queue[last.uri].lastEnded = last.ended

\* C1's case: the runs with tickets 1, 2, 3 of "a" completed in the order
\* 3, 1, 2, all successfully; only 3 was applied, and the collection holds
\* what 3 reported.
C1_Order312 ==
  /\ tickets["a"] = <<1, 1, 1>>
  /\ applied["a"] = <<3>>
  /\ last.act = "LintResolved" /\ last.uri = "a" /\ last.idx = 2
  /\ last.ops = <<>>
  /\ queue["a"].lastEnded = 3
  /\ collection["a"] = filterIssues(lint(Reports[top["a"]]), "a")
  /\ collection["a"] # <<>>

\* C2: for tickets i < j of one URI, the result of run i is never published
\* after run j has completed, whether j succeeded or failed: when a completing
\* run sets the collection, every run with a higher ticket is still pending.
C2_NoPublishAfterLater ==
  (last.act = "LintResolved" /\ Did("set", last.uri)) =>
    \A j \in (last.idx + 1)..Len(tickets[last.uri]) : tickets[last.uri][j] = 0

\* Every lint cycle has returned.
Quiescent == \A c \in 1..Len(cycles) : cycles[c].pc = "done"

\* C3: once every cycle dispatched for an open document has completed (the
\* extension enabled), the collection holds for its URI the issues of the run
\* with the highest ticket, and no entry if that run failed or found none.
C3_HighestTicketWins ==
  \A u \in URIs :
    (/\ Quiescent
     /\ ~disabled
     /\ \E e \in textEditors : docOf[e] = u
     /\ tickets[u] # <<>>)
    => LET n == Len(tickets[u])
           expected == IF tickets[u][n] = 1
                       THEN filterIssues(lint(Reports[top[u]]), u)
                       ELSE <<>>
       IN ~changedIssues(collection[u], expected)

\* C4: a lint run whose ticket is not greater than lastEnded at its completion
\* leaves the collection unchanged, whether it succeeded or failed.
C4_SupersededFrame ==
  (Completed /\ last.idx <= last.ended) => last.ops = <<>>

\* ------------------------------------------------------- closed documents
\* C5: when a lint run completes for a document that is open in no editor, the
\* collection has no entry for its URI afterwards and the step set none,
\* whether the run was admitted or not, and whether it succeeded or failed.
C5_ClosedAtCompletion ==
  (Completed /\ last.closed) =>
    /\ collection[last.uri] = <<>>
    /\ ~Did("set", last.uri)

\* C5's case: the run with the highest ticket of a document resolves with an
\* issue after the last editor of the document was closed; it is admitted, and
\* nothing is published.
C5_ResolvedAfterClose ==
  /\ last.act = "LintResolved" /\ last.closed
  /\ last.ended < last.idx
  /\ last.idx = Len(tickets[last.uri])
  /\ top[last.uri] = 2
  /\ collection[last.uri] = <<>>

\* C6: when no lint cycle is in flight, the collection has entries only for
\* URIs some editor shows.
C6_OnlyOpenDocuments ==
  Quiescent =>
    \A u \in URIs : collection[u] # <<>> => \E e \in textEditors : docOf[e] = u

\* C6's case: a document got issues as "a" and was saved as "b" while another
\* run for "a" was in flight; that run has completed, the issues are under "b"
\* (which no run has linted since), and "a" has none.
C6_RenamedInFlight ==
  /\ Quiescent
  /\ last.act = "LintResolved" /\ last.uri = "a" /\ last.closed
  /\ tickets["a"] = <<1, 1>> /\ tickets["b"] = <<1>>
  /\ collection["b"] # <<>> /\ collection["a"] = <<>>

\* ------------------------------------------------------------ the reconciler
\* The last step was a reconciliation.
Reconciled == last.act \in {"UpdateIssues", "ApplyResults"}

\* The number of calls of `kind` among the calls `ops`.
Count(ops, kind) == Cardinality({i \in 1..Len(ops) : ops[i][1] = kind})

\* The last two steps reconciled the same non-empty issues for an open document.
Twice ==
  /\ Reconciled /\ last.before.act = last.act
  /\ ~last.closed
  /\ last.issues # <<>> /\ last.before.issues = last.issues

\* Two issues agree in every field but `source`.
EqualButSource(x, y) == [x EXCEPT !.source = ""] = [y EXCEPT !.source = ""]

\* `incoming` is `known` in another order, up to the source of the issues.
IsPermutation(known, incoming) ==
  /\ Len(known) = Len(incoming)
  /\ \E p \in Permutations(1..Len(known)) :
       \A i \in 1..Len(known) : EqualButSource(known[i], incoming[p[i]])

\* C7 as stated: two reconciliations in a row of the same non-empty issues
\* for the same open document make exactly one set between them.
C7_ExactlyOneSet ==
  Twice => Count(last.before.ops, "set") + Count(last.ops, "set") = 1

\* C7, amended: the second of two such reconciliations calls nothing and
\* leaves the collection as it was; the two make at most one set, and exactly
\* one when the collection held nothing for the document before the first.
C7_SecondIsNoOp ==
  Twice =>
    /\ last.ops = <<>>
    /\ collection[last.uri] = last.known
    /\ Count(last.before.ops, "set") <= 1
    /\ last.before.known = <<>> => Count(last.before.ops, "set") = 1

\* C7's case: the first reconciliation of two issues set them, the second
\* one of the same issues changed nothing.
C7_SetThenNoOp ==
  /\ Twice
  /\ Len(last.issues) = 2
  /\ last.before.ops = << <<"set", "a">> >>
  /\ last.ops = <<>>
  /\ collection["a"] = last.issues

\* C8: when the incoming issues are the published ones in another order (up
\* to their source), the reconciliation sets nothing, and for an open document
\* it leaves the collection as it was.
C8_PermutationUnchanged ==
  (Reconciled /\ last.known # <<>> /\ IsPermutation(last.known, last.issues)) =>
    /\ ~Did("set", last.uri)
    /\ ~last.closed => last.ops = <<>> /\ collection[last.uri] = last.known

\* C8's case: two published issues come in again in the other order, one of
\* them with another source, and nothing is set.
C8_Reordered ==
  /\ Reconciled /\ ~last.closed
  /\ Len(last.known) = 2 /\ Len(last.issues) = 2
  /\ last.known[1] # last.known[2]
  /\ ~EqualButSource(last.known[1], last.known[2])
  /\ last.issues # last.known
  /\ EqualButSource(last.issues[1], last.known[2])
  /\ EqualButSource(last.issues[2], last.known[1])
  /\ last.issues[1].source # last.known[2].source
  /\ last.ops = <<>>

\* C9: when the incoming issues are none or an empty list, or the document is
\* closed, the reconciliation removes the entry if there is one, sets nothing
\* (no empty list), and leaves no entry; repeated, it calls nothing.
C9_EmptyRemoves ==
  (Reconciled /\ (last.none \/ last.issues = <<>> \/ last.closed)) =>
    /\ collection[last.uri] = <<>>
    /\ last.ops = IF last.known # <<>> THEN << <<"remove", last.uri>> >> ELSE <<>>

\* ----------------------------------------------------------- the throttle
\* The start times of the lookups in flight, and of those that found nothing.
LookupsInFlight == {c \in 1..Len(cycles) : cycles[c].pc = "which"}

\* C10 as stated: while the lookups of the directory find nothing, requests
\* within ThrottleLimit of each other start one lookup, whether the first has
\* settled or is in flight: any two lookups start more than ThrottleLimit apart.
C10_OneLookupPerWindow ==
  onlyMisses =>
    /\ \A c, d \in LookupsInFlight :
         c # d => cycles[c].lookupAt - cycles[d].lookupAt > ThrottleLimit
                  \/ cycles[d].lookupAt - cycles[c].lookupAt > ThrottleLimit
    /\ \A c \in LookupsInFlight, i \in 1..Len(missLog) :
         cycles[c].lookupAt - missLog[i].start > ThrottleLimit
    /\ \A i, j \in 1..Len(missLog) :
         i < j => missLog[j].start - missLog[i].start > ThrottleLimit

\* C10, amended: while the lookups of the directory find nothing, no step
\* starts a lookup once one has settled and its timestamp is at most
\* ThrottleLimit old; only requests made before that can start further ones.
C10_ThrottledAfterSettle ==
  [][(/\ onlyMisses
      /\ linters # NoObj
      /\ objs[linters].value = Null
      /\ objs[linters].time # NoTime
      /\ now - objs[linters].time <= ThrottleLimit)
     => last'.spawned = 0]_vars

\* C10's case: one lookup has found nothing, and a request exactly
\* ThrottleLimit after it settled was answered from the cache: still one
\* lookup, none in flight.
C10_SecondRequestThrottled ==
  /\ onlyMisses
  /\ Len(missLog) = 1 /\ LookupsInFlight = {}
  /\ last.act = "ProvideIssues" /\ last.skipped /\ last.spawned = 0
  /\ now - missLog[1].settled = ThrottleLimit

\* ---------------------------------------------------------------- the cache
\* The updates of Updatable o that wait for a subprocess: the Node check of a
\* lint cycle, its awaited lookup (self-heal included), a background refresh.
Pending(o) ==
  Cardinality({c \in 1..Len(cycles) : cycles[c].pc = "findNode" /\ cycles[c].node = o})
  + Cardinality({c \in 1..Len(cycles) :
                   cycles[c].pc \in {"which", "chmod"} /\ cycles[c].lobj = o})
  + Cardinality({t \in bg : t.obj = o})

BgSame(t, a) ==
  /\ t.obj = linters
  /\ BgWhichSettled(t, a.res, a.binExec, a.binExists)
  /\ getLinter(a.res, a.binExec, a.binExists).kind = "value"
  /\ getLinter(a.res, a.binExec, a.binExists).value = objs[linters].value

\* The same, with a result that differs in presence or binary.
BgDiffers(t, a) ==
  /\ t.obj = linters
  /\ BgWhichSettled(t, a.res, a.binExec, a.binExists)
  /\ getLinter(a.res, a.binExec, a.binExists).kind = "value"
  /\ getLinter(a.res, a.binExec, a.binExists).value # objs[linters].value

\* C12 as stated: a background refresh that resolves to the cached presence
\* and binary leaves the entry as it is, instance and timestamp.
C12_SameResultLeavesEntry ==
  [][\A t \in bg, a \in RefAnswers :
       BgSame(t, a) => /\ ~last'.replaced
                       /\ objs'[linters].value = objs[linters].value
                       /\ objs'[linters].time = objs[linters].time]_vars

\* C12, amended: a background refresh that resolves to the cached presence
\* and binary keeps the cached instance, and one that differs stores the
\* refreshed result; in both cases the timestamp is set to the time of the
\* completion.
C12_SameResultKeepsInstance ==
  [][\A t \in bg, a \in RefAnswers :
       /\ BgSame(t, a) => /\ ~last'.replaced
                          /\ objs'[linters].value = objs[linters].value
                          /\ objs'[linters].time = now
       /\ BgDiffers(t, a) =>
            /\ last'.replaced
            /\ objs'[linters].value = getLinter(a.res, a.binExec, a.binExists).value
            /\ objs'[linters].time = now]_vars

\* C12's case: a background refresh has resolved to the cached binary more
\* than a throttle window after the entry's last update.
C12_RefreshedSame ==
  /\ last.act = "BgWhichSettled"
  /\ ~last.replaced
  /\ linters # NoObj
  /\ objs[linters].value = "/global/eslint"
  /\ objs[linters].time > ThrottleLimit

\* A lint run of invocation c fails with a ProcessError and the instance it
\* used is found not to be executable any more.
LintFailedNoESLint(c, a) ==
  /\ a.name = "ProcessError"
  /\ ~a.eslintValid
  /\ LintRejected(c, a.name, a.nodeAccess, a.eslintValid, a.kind)

\* C13: a failed lint run that finds its instance not executable replaces the
\* directory's entry by one with a null instance and a null timestamp; a lint
\* cycle that finds such an entry starts the lookup whatever the time is; and
\* the entry is replaced by no other step (nothing else reads eslint.valid).
C13_EvictionForcesLookup ==
  /\ [][\A c \in 1..Len(cycles), a \in LintAnswers({"ok"}) :
          LintFailedNoESLint(c, a) =>
            /\ linters' # linters
            /\ objs'[linters'].value = Null
            /\ objs'[linters'].time = NoTime]_vars
  /\ [][(/\ ProvideIssues("e1", "ok")
         /\ objs[nodePath].value # Null
         /\ objs[linters].value = Null
         /\ objs[linters].time = NoTime) =>
          \E c \in 1..Len(cycles') :
            /\ cycles'[c].pc = "which"
            /\ cycles'[c].lobj = linters
            /\ cycles'[c].lookupAt = now]_vars
  /\ [][linters' # linters =>
          \E c \in 1..Len(cycles), a \in LintAnswers({"ok"}) :
            LintFailedNoESLint(c, a)]_vars

\* C13's case: within the throttle window of the instance cached at time 0
\* the entry has been evicted and the next lint cycle has started a lookup.
C13_LookupAfterEviction ==
  /\ last.act = "ProvideIssues"
  /\ now <= ThrottleLimit
  /\ linters > 2
  /\ \E c \in 1..Len(cycles) :
       cycles[c].pc = "which" /\ cycles[c].lobj = linters /\ cycles[c].lookupAt = now

\* ------------------------------------------------------- failures of a run
\* The lint run of invocation c ends in a ProcessError, with the answers a of
\* the filesystem about the cached Node path and the ESLint binary.
LintProcessError(c, a) ==
  /\ a.name = "ProcessError"
  /\ LintRejected(c, a.name, a.nodeAccess, a.eslintValid, a.kind)

\* The cycle of invocation c has been started again as a retry, and waits for
\* the lookup of what was invalidated.
Retried(c) ==
  /\ cycles'[c].pc \in {"findNode", "which"}
  /\ ~cycles'[c].retry
  /\ cycles'[c].editor = cycles[c].editor

C15_AlwaysResolves ==
  [][/\ last'.thrown = 0
     /\ \A c \in 1..Len(cycles) :
          (cycles[c].pc # "done" /\ cycles'[c].pc = "done") => last'.returned >= 1
     /\ (last'.act = "ProvideIssues" /\ Len(cycles') = Len(cycles)) =>
          last'.returned = 1]_vars

\* C15's case: with Node and a binary cached, a trigger has returned at once,
\* which only the outer handler does, after the resolver threw.
C15_ResolverExceptionReturned ==
  /\ last.act = "ProvideIssues"
  /\ last.returned = 1
  /\ objs[nodePath].value # Null
  /\ linters # NoObj
  /\ objs[linters].value # Null

\* A step in which the lint cycle of invocation c for its open document ends
\* in a failure of the lookup or of the lint run.
CycleFailed(c) ==
  /\ cycles'[c].pc = "done"
  /\ \E e \in textEditors : docOf[e] = cycles[c].uri
  /\ \/ \E a \in RefAnswers :
          /\ getLinter(a.res, a.binExec, a.binExists).kind \in {"ShellError", "Error"}
          /\ WhichSettled(c, a.res, a.binExec, a.binExists, a.nodeAccess, a.kind)
     \/ ChmodSettled(c, 1)
     \/ \E a \in LintAnswers({"ok"}) :
          LintRejected(c, a.name, a.nodeAccess, a.eslintValid, a.kind)

\* C16 without the resolver exception: right after a cycle ended in a failed
\* lookup or a failed lint run the collection holds nothing for its document.
FailedRunClears ==
  [][\A c \in 1..Len(cycles) :
       CycleFailed(c) => collection'[cycles[c].uri] = <<>>]_vars

\* C16: right after a lint cycle for an open document ended in a failure of
\* any class, the resolver exception included, the collection holds no
\* diagnostics for the document.
C16_FailureClearsDiagnostics ==
  [][/\ \A c \in 1..Len(cycles) :
          CycleFailed(c) => collection'[cycles[c].uri] = <<>>
     /\ ProvideIssues("e1", "configError") => collection'[docOf["e1"]] = <<>>]_vars

\* The lint run of invocation c printed a report that cannot be parsed.
LintParseError(c, a) ==
  /\ a.name = "SyntaxError"
  /\ LintRejected(c, a.name, a.nodeAccess, a.eslintValid, a.kind)

\* C17: an unparsable report removes the document's diagnostics and ends the
\* invocation: nothing is started, and neither the Node path nor the
\* directory's entry is touched, whatever the filesystem would say of them.
C17_ParseErrorNoRetry ==
  [][\A c \in 1..Len(cycles), a \in RefFailures :
       LintParseError(c, a) =>
         /\ collection'[cycles[c].uri] = <<>>
         /\ cycles'[c] = NoCycle
         /\ last'.spawned = 0
         /\ last'.returned = 1
         /\ nodePath' = nodePath
         /\ linters' = linters
         /\ objs'[nodePath] = objs[nodePath]
         /\ objs'[linters] = objs[linters]
         /\ bg' = bg]_vars

\* C17's case: the run of a first attempt has failed on its report, the
\* published diagnostics are gone and the cached binary is still in place.
C17_ParseErrorHandled ==
  /\ last.act = "LintRejected"
  /\ last.error = "SyntaxError"
  /\ last.returned = 1
  /\ last.ops = << <<"remove", last.uri>> >>
  /\ collection[last.uri] = <<>>
  /\ linters = 2
  /\ nodePath = 1

\* ------------------------------------------------------------ the locator
\* C18: in one call of getLinter, makeExecutable starts its chmod at most
\* once (the only cycle of SpecLocate makes one call).
C18_AtMostOneHeal == heals <= 1

\* The lookup subprocess of invocation c exits with answer a.
Located(c, a) == WhichSettled(c, a.res, a.binExec, a.binExists, a.nodeAccess, a.kind)

\* C19: a lookup that exits with code 0 and a first line of stdout naming an
\* executable file stores that instance; one that exits with code 0 without
\* such a line, or with code 1, resolves to none, which stamps the entry and
\* ends the cycle without an error; an exit code above 1 never resolves: the
\* entry keeps its value and its stamp, no miss is recorded, and the call
\* either starts the self-heal or rejects.
C19_Outcomes ==
  [][\A c \in 1..Len(cycles), a \in LocateAnswers :
       Located(c, a) =>
         LET l == cycles[c].lobj
             found == a.res.code = 0 /\ a.res.stdout # Null /\ a.res.exec
         IN /\ found => objs'[l].value = a.res.stdout /\ objs'[l].time = now
            /\ (~found /\ a.res.code <= 1) =>
                 /\ objs'[l].value = Null
                 /\ objs'[l].time = now
                 /\ missLog' # missLog
                 /\ last'.returned = 1
            /\ a.res.code > 1 =>
                 /\ objs'[l].value = objs[l].value
                 /\ objs'[l].time = objs[l].time
                 /\ missLog' = missLog
                 /\ \/ cycles'[c].pc = "chmod" /\ objs'[l].updates = objs[l].updates
                    \/ cycles'[c].pc # "chmod" /\ heals' = heals]_vars

\* C19's case: the lookup has found no executable file (nothing printed, a
\* first line that names none, or exit code 1) and has resolved to none.
C19_ResolvedToNone ==
  /\ last.act = "WhichSettled"
  /\ linters # NoObj
  /\ objs[linters].value = Null
  /\ objs[linters].time = now
  /\ onlyMisses
  /\ missLog # <<>>

\* ----------------------------------------------------------- the resolver
\* The result for the parent directories, seen from the directory below.
Shift(conf) == IF conf.kind = "none" THEN conf ELSE [conf EXCEPT !.dir = @ + 1]

\* The dedicated configuration files of a listing.
Dedicated(listing) == {k \in 1..Len(ConfigNames) : ConfigNames[k] \in listing.files}

\* C20: in the first directory a dedicated configuration file, the first in
\* the order of formats, is the result whatever package.json holds; without a
\* dedicated file a package.json with the section is the result; without a
\* dedicated file and with no package.json, or one without the section, the
\* result is that of the parent directories.
C20_Precedence ==
  (last.act = "ProvideIssues" /\ last.tree # <<>>) =>
    LET d == last.tree[1]
        up == Shift(config(Tail(last.tree), last.rev))
    IN /\ Dedicated(d) # {} =>
            \E k \in Dedicated(d) :
              /\ \A j \in Dedicated(d) : k <= j
              /\ last.config = [kind |-> "file", dir |-> 1, file |-> ConfigNames[k]]
       /\ (Dedicated(d) = {} /\ "package.json" \in d.files /\ d.pkg = "section") =>
            last.config = [kind |-> "file", dir |-> 1, file |-> "package.json"]
       /\ (Dedicated(d) = {} /\ "package.json" \in d.files /\ d.pkg = "noSection") =>
            last.config = up
       /\ (Dedicated(d) = {} /\ "package.json" \notin d.files) => last.config = up

\* C20's case: the document's directory holds a package.json without the
\* section, its parent both a dedicated file and a package.json with the
\* section; the dedicated file of the parent is the result.
C20_ParentAfterBareManifest ==
  /\ last.act = "ProvideIssues"
  /\ Len(last.tree) = 2
  /\ last.tree[1] = [files |-> {"package.json"}, pkg |-> "noSection"]
  /\ last.tree[2] = [files |-> {".eslintrc.json", "package.json"}, pkg |-> "section"]
  /\ last.config = [kind |-> "file", dir |-> 2, file |-> ".eslintrc.json"]
  /\ \E c \in 1..Len(cycles) : cycles[c].pc = "lint"

\* ------------------------------------------------------ the home boundary
\* The directory a search for `path` starts in.
StartDir(path) == IF isFile(path) THEN dirname(path) ELSE path

\* The directory is the home directory or lies below it.
InHome(dir) ==
  Len(dir) >= Len(homePath) /\ SubSeq(dir, 1, Len(homePath)) = homePath

\* The names a search looks for, and whether a listing holds a valid
\* candidate for the search the last step made.
NamesOf(act) == IF act = "ignore" THEN <<".eslintignore">> ELSE ConfigNames

SectionOf(act) == IF act = "ignore" THEN "eslintIgnore" ELSE "eslintConfig"

Valid(dir) ==
  inDirectory(listdir(last.fs, dir), NamesOf(last.act), SectionOf(last.act),
              last.rev).kind = "file"

\* C21: config and ignore list only the home directory and directories below
\* it, and list nothing for a start outside the home tree.
C21_HomeBoundary ==
  (last.act \in {"config", "ignore"} /\ last.rev = "in") =>
    /\ \A i \in 1..Len(last.walk.listed) : InHome(last.walk.listed[i])
    /\ ~InHome(StartDir(last.path)) =>
         last.walk.kind = "none" /\ last.walk.listed = <<>>

\* C22: from a start at or below the home directory, in a file system that
\* holds no valid candidate at all, the search returns none.
C22_WalkTerminates ==
  (/\ last.act \in {"config", "ignore"}
   /\ InHome(StartDir(last.path))
   /\ \A d \in WalkDirs : ~Valid(d)) =>
    last.walk.kind = "none"

\* The directories from the start directory up to the home directory, without
\* it (Below) or with it (UpToHome), by their depth.
Below(path) == (Len(homePath) + 1)..Len(StartDir(path))

UpToHome(path) == Len(homePath)..Len(StartDir(path))

Ancestor(path, k) == SubSeq(StartDir(path), 1, k)

\* The search of the last step returned the candidate of the deepest
\* directory, among those of the depths `depths` above the start, that holds
\* a valid one, and none if there is no such directory.
NearestIn(depths) ==
  LET hits == {k \in depths : Valid(Ancestor(last.path, k))}
  IN IF hits = {} THEN last.walk.kind = "none"
     ELSE \E k \in hits :
            /\ \A j \in hits : j <= k
            /\ last.walk.kind = "file"
            /\ last.walk.dir = Ancestor(last.path, k)

C24_AllTerminates ==
  (last.act = "all" /\ last.dirnameNull = "value") =>
    last.walk.kind \in {"files", "none"}

\* ---------------------------------------------------------- the lint run
\* C25 as stated: ESLint.lint returns a list of issues when the process
\* exits with 0 or 1, and throws a ProcessError when it exits with more.
C25_ListOrProcessError ==
  last.act = "lint" =>
    IF last.code > 1
    THEN last.lint.kind = "throw" /\ last.lint.name = "ProcessError"
    ELSE last.lint.kind = "return"

\* C25, amended: an exit code above 1 throws a ProcessError and nothing is
\* parsed; with exit code 0 or 1, an empty or blank stdout returns the empty
\* list, a report returns a list with one issue per message, and any other
\* stdout makes the parsing throw an error that is no ProcessError.
C25_ExitCodes ==
  last.act = "lint" =>
    IF last.code > 1
    THEN last.lint = Thrown("ProcessError", FALSE)
    ELSE CASE last.stdout.kind \in {"empty", "blank"} -> last.lint = Returned(<<>>)
           [] last.stdout.kind = "report" ->
                /\ last.lint.kind = "return"
                /\ Len(last.lint.issues) = Len(last.stdout.report)
           [] OTHER ->
                /\ last.lint.kind = "throw"
                /\ last.lint.name # "ProcessError"
                /\ last.lint.parsed

\* C25's case: the process exits with 2 and stdout is no JSON; the
\* ProcessError is thrown and stdout was not parsed.
C25_FailedRunNotParsed ==
  /\ last.act = "lint"
  /\ last.code = 2
  /\ last.stdout.kind = "garbage"
  /\ last.lint = Thrown("ProcessError", FALSE)

\* C26: the issues returned are the report's messages in order, each with
\* the message's text and rule, severity Error if the message is fatal or of
\* severity 2 and Warning otherwise, a missing line or column as 0, and a
\* missing endLine or endColumn as the line or column.
C26_Normalised ==
  (last.act = "lint" /\ last.code <= 1 /\ last.stdout.kind = "report") =>
    /\ last.lint.kind = "return"
    /\ Len(last.lint.issues) = Len(last.stdout.report)
    /\ \A i \in 1..Len(last.stdout.report) :
         LET m == last.stdout.report[i]
             issue == last.lint.issues[i]
         IN /\ issue.message = m.message
            /\ issue.code = m.ruleId
            /\ issue.severity = IF m.fatal \/ m.severity = 2 THEN "Error" ELSE "Warning"
            /\ issue.line = m.line
            /\ issue.column = m.column
            /\ issue.endLine = IF m.endLine = 0 THEN m.line ELSE m.endLine
            /\ issue.endColumn = IF m.endColumn = 0 THEN m.column ELSE m.endColumn

\* C26's case: the message {ruleId no-undef, line 3, column 5, severity 2}
\* alone in the report yields the issue no-undef, 3:5 to 3:5, Error.
C26_ScenarioA ==
  /\ last.act = "lint"
  /\ last.code = 1
  /\ last.stdout = Stdout("report", <<mUndef>>)
  /\ last.lint = Returned(<<Issue(ExtensionName, mUndef.message, "no-undef", 3, 5, 3, 5, "Error")>>)

\* ------------------------------------------------------------ the filter
\* The last step filtered and published the results of a lint run.
Filtered == last.act \in {"FilterAndApply", "FilterAndUpdate"}

\* The results are one Warning whose message starts with "File ignored".
OnlyFileIgnored(results) ==
  /\ Len(results) = 1
  /\ results[1].severity = "Warning"
  /\ matchesFileIgnored(results[1].message)

\* C27: a result that is one "File ignored" Warning is filtered to the empty
\* list and the entry of the document's URI is removed if there is one (and
\* nothing is set); a result of more than one issue passes the filter as it is.
C27_IgnoredRemoves ==
  Filtered =>
    /\ OnlyFileIgnored(last.results) =>
         /\ last.issues = <<>>
         /\ collection[last.uri] = <<>>
         /\ last.ops = IF last.known # <<>> THEN << <<"remove", last.uri>> >> ELSE <<>>
    /\ Len(last.results) > 1 => last.issues = last.results

\* The part of C27 that holds: the filter, and the removal by updateIssues.
IgnoredFilteredOut ==
  Filtered =>
    /\ OnlyFileIgnored(last.results) =>
         /\ last.issues = <<>>
         /\ collection[last.uri] = <<>>
         /\ (last.act = "FilterAndUpdate" \/ last.closed) =>
              last.ops = IF last.known # <<>> THEN << <<"remove", last.uri>> >> ELSE <<>>
    /\ Len(last.results) > 1 => last.issues = last.results

\* --------------------------------------------- documents not to be linted
\* What a trigger for a document that cannot be linted does in its step: it
\* removes the issues of the URI if there are any and calls nothing else on
\* the collection, returns, takes no ticket and starts no lint run.
SkippedFor(uri) ==
  /\ collection'[uri] = <<>>
  /\ last'.ops = IF collection[uri] # <<>> THEN << <<"remove", uri>> >> ELSE <<>>
  /\ last'.returned = 1
  /\ queue' = queue
  /\ tickets' = tickets
  /\ \A c \in 1..Len(cycles') :
       cycles'[c].pc = "lint" => c <= Len(cycles) /\ cycles[c].pc = "lint"

\* No binary is cached for the directory and the lookup is throttled.
NoBinaryKnown ==
  /\ objs[nodePath].value # Null
  /\ linters # NoObj
  /\ objs[linters].value = Null
  /\ throttled(objs[linters].time, now)

\* C28: a lint trigger for an untitled or remote document, for one without a
\* configuration, and for one whose directory has no binary (the lookup is
\* throttled after a miss, or it has just found nothing) removes the issues
\* published for the URI, takes no ticket and starts no lint run.
C28_UnlintableSkipped ==
  [][/\ \A kind \in {"unlintable", "noconfig"} :
          ProvideIssues("e1", kind) => SkippedFor(docOf["e1"])
     /\ (ProvideIssues("e1", "ok") /\ NoBinaryKnown) => SkippedFor(docOf["e1"])
     /\ \A c \in 1..Len(cycles), a \in SkipAnswers :
          (/\ WhichSettled(c, a.res, a.binExec, a.binExists, a.nodeAccess, a.kind)
           /\ IsMiss(a.res)
           /\ objs'[linters'].value = Null) => SkippedFor(cycles[c].uri)]_vars

\* C28's case: a trigger found the document not to be linted, or without a
\* binary, while issues of an earlier lint run were published, and removed them.
C28_StaleIssuesRemoved ==
  /\ last.act = "ProvideIssues"
  /\ last.ops = << <<"remove", "a">> >>
  /\ last.returned = 1
  /\ queue["a"].lastStarted = 2
  /\ queue["a"].lastEnded = 1

\* --------------------------------------------------- saving under a new name
\* C29: when a save changes the URI of an editor's document and the
\* collection holds issues under the old URI, then after the save listener it
\* holds the same issues under the new URI, and no issues under the old URI
\* exactly if no editor shows a document of the old URI any more (else the
\* old ones stay).
C29_Transplanted ==
  [][\A e \in Editors, newURI \in URIs, moved \in SUBSET Editors :
       (SaveAs(e, newURI, moved) /\ collection[docOf[e]] # <<>>) =>
         LET oldURI == docOf[e]
             shown == \E x \in textEditors' : docOf'[x] = oldURI
         IN /\ collection'[newURI] = collection[oldURI]
            /\ collection'[oldURI] = IF shown THEN collection[oldURI] ELSE <<>>
            /\ last'.ops = IF shown THEN << <<"set", newURI>> >>
                           ELSE << <<"set", newURI>>, <<"remove", oldURI>> >>]_vars

\* C29's case: two editors showed document a with its issues, one of them
\* saved it as b, and the issues stand under both URIs.
C29_CopiedWhileShown ==
  /\ last.act = "SaveAs"
  /\ last.uri = "a"
  /\ last.ops = << <<"set", "b">> >>
  /\ collection["a"] # <<>>
  /\ collection["b"] = collection["a"]
  /\ \E x \in textEditors : docOf[x] = "a"

\* ------------------------------------------------- a lint run that hangs
\* Some lint run's process has not exited, and never will.
SomeRunHangs == \E h \in 1..Len(cycles) : HungRun(h)

\* C30: while the process of one lint run never exits, a trigger for any
\* document still takes its ticket and starts its lint run; the exit of any
\* other run ends that run, leaves the hung one as it is, and, if no run of
\* the same document started after it has ended before and the document is
\* open, publishes its issues; and every other run started does end.
C30_HungBlocksOnlyItself ==
  /\ [][\A e \in Editors :
          (ProvideIssues(e, "ok") /\ SomeRunHangs) =>
            LET c == Len(cycles')
                uri == docOf[e]
            IN /\ c = Len(cycles) + 1
               /\ cycles'[c].pc = "lint"
               /\ cycles'[c].uri = uri
               /\ cycles'[c].index = IF queue[uri] = NoQueue THEN 1
                                     ELSE queue[uri].lastStarted]_vars
  /\ [][\A c \in 1..Len(cycles), r \in {1, 2} :
          (ExitOther(c, r) /\ SomeRunHangs) =>
            LET uri == cycles[c].uri IN
            /\ cycles'[c].pc = "done"
            /\ \A h \in 1..Len(cycles) : HungRun(h) => cycles'[h] = cycles[h]
            /\ (/\ queue[uri].lastEnded < cycles[c].index
                /\ \E x \in textEditors : docOf[x] = uri) =>
                 /\ queue'[uri].lastEnded = cycles[c].index
                 /\ ~changedIssues(collection'[uri], filterIssues(lint(Reports[r]), uri))]_vars
  /\ \A c \in 1..HangCycles :
       (c \in 1..Len(cycles) /\ cycles[c].pc = "lint" /\ ~HungRun(c))
         ~> (c \in 1..Len(cycles) /\ cycles[c].pc = "done")

\* C30's case: the first run for document a hangs, the second run for a,
\* started after it, has ended and its issues are published, and so are
\* those of a run for document b.
C30_LaterRunPublished ==
  /\ SomeRunHangs
  /\ last.act = "LintResolved"
  /\ last.uri = "a"
  /\ last.idx = 2
  /\ Did("set", "a")
  /\ collection["a"] # <<>>
  /\ collection["b"] # <<>>

\* ------------------------------------------------------ the run counters
\* The ticket the next dispatch for `uri` gets.
NextTicket(uri) == IF queue[uri] = NoQueue THEN 1 ELSE queue[uri].lastStarted

\* The invocations that take a ticket for `uri` in the step.
Dispatched(uri) ==
  {c \in 1..Len(cycles') :
     /\ cycles'[c].pc = "lint"
     /\ cycles'[c].uri = uri
     /\ ~(c <= Len(cycles) /\ cycles[c].pc = "lint" /\ cycles[c] = cycles'[c])}

\* C31: the counter of a URI is absent or holds lastEnded < lastStarted, with
\* one ticket handed out for each number below lastStarted; the runs awaiting
\* their lint process hold different tickets of their URI; the dispatches of
\* a step get the tickets from the current lastStarted on, one each, the
\* first ever the ticket 1 (with lastEnded 0), and lastStarted moves past
\* them; lastEnded never decreases.
C31_Counters ==
  /\ [](\A u \in URIs :
          /\ queue[u] # NoQueue =>
               /\ queue[u].lastStarted >= 1
               /\ queue[u].lastEnded >= 0
               /\ queue[u].lastEnded < queue[u].lastStarted
          /\ Len(tickets[u]) = NextTicket(u) - 1
          /\ \A c, d \in 1..Len(cycles) :
               (/\ c # d
                /\ cycles[c].pc = "lint" /\ cycles[d].pc = "lint"
                /\ cycles[c].uri = u /\ cycles[d].uri = u) =>
                 cycles[c].index # cycles[d].index)
  /\ [][\A u \in URIs :
          LET first == NextTicket(u)
              n == Cardinality(Dispatched(u))
          IN /\ {cycles'[c].index : c \in Dispatched(u)} = first..(first + n - 1)
             /\ n > 0 => queue'[u].lastStarted = first + n
             /\ n = 0 => queue'[u].lastStarted = queue[u].lastStarted
             /\ queue'[u].lastEnded >= queue[u].lastEnded
             /\ (n > 0 /\ queue[u] = NoQueue) => queue'[u].lastEnded = 0]_vars

\* C31's case: document a got its counter with the first dispatch, two runs
\* were dispatched, and the one with ticket 2 has ended while the one with
\* ticket 1 still awaits its lint process.
C31_TwoTickets ==
  /\ queue["a"] = [lastStarted |-> 3, lastEnded |-> 2]
  /\ Len(tickets["a"]) = 2
  /\ \E c \in 1..Len(cycles) :
       cycles[c].pc = "lint" /\ cycles[c].uri = "a" /\ cycles[c].index = 1

\* -------------------------------------------------- one document at a time
\* The step leaves alone the counter and the issues of every URI outside
\* `uris`, and calls the collection for no other URI.
OnlyTouches(uris) ==
  /\ \A u \in URIs \ uris : queue'[u] = queue[u] /\ collection'[u] = collection[u]
  /\ \A i \in 1..Len(last'.ops) : last'.ops[i][2] \in uris

\* C32: with the option enabled, a trigger for an editor's document, the end
\* of a run's lookup and the end of a lint run change the counter and the
\* issues of no URI but the run's; a failed run that is retried dispatches
\* the retry for the document its editor shows then, and changes no third URI.
C32_OtherURIsUntouched ==
  [][~disabled =>
       /\ \A e \in Editors, kind \in SkipKinds :
            ProvideIssues(e, kind) => OnlyTouches({docOf[e]})
       /\ \A c \in 1..Len(cycles), a \in SkipAnswers :
            WhichSettled(c, a.res, a.binExec, a.binExists, a.nodeAccess, a.kind) =>
              OnlyTouches({cycles[c].uri})
       /\ \A c \in 1..Len(cycles), r \in {1, 2} :
            LintResolved(c, r) => OnlyTouches({cycles[c].uri})
       /\ \A c \in 1..Len(cycles), a \in FrameFailures :
            LintRejected(c, a.name, a.nodeAccess, a.eslintValid, a.kind) =>
              OnlyTouches(IF cycles'[c].pc = "done" THEN {cycles[c].uri}
                          ELSE {cycles[c].uri, docOf[cycles[c].editor]})]_vars

\* C32's case: a run for document b published its issues, then a run for
\* document a published others; those of b and the counter of b stayed.
C32_PublishedBesideOther ==
  /\ last.act = "LintResolved"
  /\ last.uri = "a"
  /\ Did("set", "a")
  /\ collection["b"] # <<>>
  /\ collection["b"] # collection["a"]
  /\ queue["b"] = [lastStarted |-> 3, lastEnded |-> 2]

\* ------------------------------------------- a failing background refresh
\* The settling of a background refresh, failed or not, changes no
\* invocation, counter or published issue.
RefreshLeavesCycles ==
  [][\A t \in bg :
       ((\E a \in RefAnswers : BgWhichSettled(t, a.res, a.binExec, a.binExists))
        \/ (\E code \in {0, 1} : BgChmodSettled(t, code))) =>
         /\ cycles' = cycles
         /\ queue' = queue
         /\ collection' = collection
         /\ last'.ops = <<>>]_vars

\* C33: no step leaves a rejected promise without a handler; the failure of
\* a background refresh in particular is caught.
C33_RefreshFailureCaught == last.unhandled = 0

\* ---------------------------------------------------------------------------
\* Retries of a lint trigger.  The trigger is provideIssues on a document at a
\* path of a file system: the configuration kind maybeLint sees is what
\* ESLint.config(path) computes there.  A walk that never returns leaves the
\* invocation inside ESLint.config (pc "config") for good.
\* ---------------------------------------------------------------------------
RetryCycles == 3

RetryPaths == {Append(homePath, FileName), Append(<<"Users", "joe", "p">>, FileName)}

RetrySystems ==
  {fs \in WalkSystems :
     \A d \in WalkDirs : d # <<"Users", "joe", "p">> => fs[d] = NoListing}

provideIssuesAt(S, c, editor, conf) ==
  IF ~S.disabled /\ conf.kind = "hang"
  THEN Park(S, c, [NoCycle EXCEPT !.pc = "config", !.editor = editor,
                                  !.uri = S.docOf[editor]])
  ELSE maybeLint(S, c, editor, TRUE, kindOf(conf))

ProvideIssuesAt(e, fs, path) ==
  /\ e \in textEditors
  /\ Apply(provideIssuesAt(Cur, Len(cycles) + 1, e, findConfig(fs, path, "in")),
           [NoLast EXCEPT !.act = "ProvideIssues", !.uri = docOf[e],
                          !.path = path, !.walk = findConfig(fs, path, "in")])
  /\ UNCHANGED <<now, created>>

NextRetry ==
  \/ \E fs \in RetrySystems, path \in RetryPaths :
       ProvideIssuesAt("e1", fs, path) /\ Len(cycles') <= RetryCycles
  \/ \E c \in 1..Len(cycles), found \in BOOLEAN : NodeSettled(c, found)
  \/ \E c \in 1..Len(cycles), a \in RefAnswers :
       WhichSettled(c, a.res, a.binExec, a.binExists, a.nodeAccess, a.kind)
  \/ \E c \in 1..Len(cycles), code \in {0, 1} : ChmodSettled(c, code)
  \/ \E c \in 1..Len(cycles) : LintResolved(c, 2)
  \/ \E c \in 1..Len(cycles), a \in RefFailures :
       LintRejected(c, a.name, a.nodeAccess, a.eslintValid, a.kind)

SpecRetry == InitSeq /\ [][NextRetry]_vars

\* An invocation of maybeLint that has not returned awaits a subprocess.
AwaitsSubprocess(c) == cycles[c].pc \in {"findNode", "which", "chmod", "lint"}

\* A pass started as a retry (retry = false) is the last pass of its trigger:
\* its failed lint run ends the invocation, and its failed lookup never
\* leads back to the Node check.
RetryEndsTheChain ==
  [][\A c \in 1..Len(cycles) :
       (/\ ~cycles[c].retry
        /\ cycles[c].pc # "done"
        /\ cycles'[c] # cycles[c])
       => /\ cycles[c].pc = "lint" => cycles'[c].pc = "done"
          /\ cycles'[c].pc # "findNode"
          /\ ~cycles'[c].retry]_vars

\* C34: no lint trigger causes more than one retry, so every lint trigger
\* terminates once its subprocesses terminate: an invocation that has not
\* returned is waiting for a subprocess of its own.
C34_EndsWithItsSubprocesses ==
  \A c \in 1..Len(cycles) : cycles[c].pc # "done" => AwaitsSubprocess(c)

\* ---------------------------------------------------------------------------
\* The throttle of the lookup after a settled attempt.  Cold start; the
\* lookup script, when it fails, is executable, so every exit of a lookup
\* settles the attempt (found, not found or ShellError); a lint run that
\* fails with a ProcessError on a vanished binary evicts the entry.
\* ---------------------------------------------------------------------------
ThrottleCycles == 2
ThrottleTicks == 2

ThrottleAnswers == {a \in WhichAnswers({"ok"}) : a.binExec /\ a.nodeAccess}

ThrottleFailures ==
  {a \in LintAnswers({"ok"}) : a.name = "ProcessError" /\ a.nodeAccess /\ ~a.eslintValid}

NextThrottle ==
  \/ Tick /\ now' <= ThrottleTicks * TickMs
  \/ ProvideIssues("e1", "ok") /\ Len(cycles') <= ThrottleCycles
  \/ \E c \in 1..Len(cycles), found \in BOOLEAN : NodeSettled(c, found)
  \/ \E c \in 1..Len(cycles), a \in ThrottleAnswers :
       WhichSettled(c, a.res, a.binExec, a.binExists, a.nodeAccess, a.kind)
  \/ \E c \in 1..Len(cycles) : LintResolved(c, 2)
  \/ \E c \in 1..Len(cycles), a \in ThrottleFailures :
       LintRejected(c, a.name, a.nodeAccess, a.eslintValid, a.kind)

SpecThrottle == InitCache /\ [][NextThrottle]_vars

\* An entry that carries a timestamp throttles: for 60 seconds from the
\* timestamp no step but an eviction starts a lookup for the directory.
StampedEntryThrottles ==
  [][(/\ linters # NoObj
      /\ objs[linters].time # NoTime
      /\ now' - objs[linters].time <= ThrottleLimit
      /\ last'.act # "LintRejected")
     => last'.spawned = 0]_vars

\* C35: whenever a lookup attempt has settled with any outcome (found, not
\* found or ShellError), no further lookup subprocess is started for the
\* directory during the following 60 seconds unless the entry was evicted in
\* between: the step that follows the settling at the same instant, unless it
\* is the failure of a lint run, starts no lookup.
C35_QuietAfterSettle ==
  [][(/\ last.act = "WhichSettled"
      /\ now' = now
      /\ last'.act # "LintRejected")
     => last'.spawned = 0]_vars

\* ---------------------------------------------------------------------------
\* Text snapshots and tickets.  An invocation reads the document's text at
\* its entry, before its first await, so the invocations of first passes are
\* numbered in `cycles` in the order of their snapshots (a retry reads the
\* text again and keeps its place).
\* ---------------------------------------------------------------------------
FirstPassRuns(uri) ==
  {c \in 1..Len(cycles) :
     cycles[c].pc = "lint" /\ cycles[c].uri = uri /\ cycles[c].retry}

\* C36: of two lint cycles on the same document, the one that captured its
\* text snapshot earlier also holds the lower ticket, also when the cycles
\* overlapped while awaiting the Node check or the binary lookup.
C36_EarlierSnapshotLowerTicket ==
  \A uri \in URIs : \A c, d \in FirstPassRuns(uri) :
    c < d => cycles[c].index < cycles[d].index

\* ---------------------------------------------------------------------------
\* The disabled option and lint runs in flight.
\* ---------------------------------------------------------------------------
Published == {u \in URIs : collection[u] # <<>>}

\* C37: while the workspace option is set, the collection, once cleared,
\* stays empty: no lint cycle that was in flight when the option was set
\* publishes diagnostics when it completes.
C37_EmptyWhileDisabled ==
  [][(disabled /\ disabled' /\ Published = {}) => Published' = {}]_vars

\* ---------------------------------------------------------------------------
\* Node missing from the PATH.
\* ---------------------------------------------------------------------------
\* C38: when the Node check reports that Node is not in the PATH, the lint
\* trigger removes the document's diagnostics and returns without looking up
\* or running the lint tool.
C38_NoNodeNoLint ==
  [][\A c \in 1..Len(cycles) :
       NodeSettled(c, FALSE)
       => /\ cycles'[c].pc = "done"
          /\ last'.spawned = 0
          /\ collection'[cycles[c].uri] = <<>>]_vars

\* ---------------------------------------------------------------------------
\* The published list after a reconciliation.
\* ---------------------------------------------------------------------------
\* C39: after the reconciliation of a non-empty incoming list for an open
\* document, the list published for the URI equals the incoming list as a
\* multiset of issues compared on all fields but source, duplicates included.
C39_PublishedIsIncoming ==
  (Reconciled /\ ~last.closed /\ ~last.none /\ last.issues # <<>>) =>
    IsPermutation(collection[last.uri], last.issues)

\* Without duplicates on either side the published list is the incoming one
\* up to order and source.
NoDuplicates(l) ==
  \A i, j \in 1..Len(l) : i # j => ~EqualButSource(l[i], l[j])

PublishedIsIncomingIfDistinct ==
  (/\ Reconciled /\ ~last.closed /\ ~last.none /\ last.issues # <<>>
   /\ NoDuplicates(last.known) /\ NoDuplicates(last.issues)) =>
    IsPermutation(collection[last.uri], last.issues)

\* ---------------------------------------------------------------------------
\* An eviction while a background refresh is in flight.
\* ---------------------------------------------------------------------------
\* The refreshes whose entry has been replaced since they started.
LateRefreshes == {t \in bg : linters # NoObj /\ t.obj # linters}

\* C40 as stated: after the eviction the entry's instance stays null and its
\* updating flag stays false until a resolution started after the eviction
\* has settled.
C40_EntryIdleUntilSettled ==
  (LateRefreshes # {} /\ objs[linters].time = NoTime) =>
    objs[linters].value = Null /\ ~updating(objs[linters])

\* C40, amended: the settling of a refresh whose entry was evicted meanwhile
\* leaves the new entry as it is; the new entry has no instance before one of
\* its own resolutions has resolved, and it is updating exactly while
\* resolutions of its own are in flight.
C40_LateResultNotWritten ==
  /\ [](linters # NoObj =>
          /\ objs[linters].time = NoTime => objs[linters].value = Null
          /\ objs[linters].updates = Pending(linters))
  /\ [][\A t \in LateRefreshes :
          (\/ \E a \in RefAnswers : BgWhichSettled(t, a.res, a.binExec, a.binExists)
           \/ \E code \in {0, 1} : BgChmodSettled(t, code))
          => /\ linters' = linters
             /\ objs'[linters] = objs[linters]]_vars

\* C40's case: a refresh has just resolved, and the directory's entry, put
\* in place after the refresh had started, is still empty and unstamped.
C40_LateResultDropped ==
  /\ last.act = "BgWhichSettled"
  /\ last.unhandled = 0
  /\ bg = {}
  /\ linters # NoObj
  /\ objs[linters].value = Null
  /\ objs[linters].time = NoTime

====
